---- MODULE Spec2Model ----
(***************************************************************************)
(* Field-to-entity inference and merge engine of the prompt builder        *)
(* front end: normalizeList / mergeList / getByPath / setByPath /          *)
(* deriveProjectUpdates (forward mapping), the write-back performed by     *)
(* applySuggestions, and prefillFromProject (reverse mapping).             *)
(*                                                                         *)
(* A JavaScript string is a sequence of one-character strings, so that     *)
(* trim, split, toLowerCase and join are computed and not assumed.         *)
(* undefined, null and "" are all falsy and every read in the modelled     *)
(* code goes through `x || ""` or a truthiness test, so an absent value    *)
(* is the empty sequence.                                                  *)
(***************************************************************************)
EXTENDS Integers, Sequences, FiniteSets, TLC

VARIABLES
    project,      \* the project record handed to the mapper (or Absent)
    feature,      \* the feature record handed to the mapper (or Absent)
    formId,       \* phase key: currentPhase
    form,         \* rendered form: element id -> el.value
    derived,      \* pendingSuggestions and pendingUpdatePayload
    formBefore,   \* form as it was before the last prefillFromProject
    applied,      \* the `applied` flag of the last prefillFromProject
    edits,        \* number of fields the user has retyped
    pc,           \* position of the run
    hints,        \* rendered elements carrying data-entity and data-path
    projectCache,     \* the projects as last loaded from the Store
    featureCache,     \* project id -> the features as last loaded
    activeProjectId,  \* "" or the id of the selected project
    activeFeatureId,  \* "" or the id of the selected feature
    toast,            \* type of the last notification shown by showToast
    store,            \* the records held by the Store
    call,             \* the last handler that talked to the Store, and how it went
    transcriptionInProgress,  \* the flag of the same name
    tstep,                    \* where the running transcribeVideo is waiting
    elapsed,                  \* time since transcribeAudio armed its timer
    response,                 \* the response whose body transcribeAudio is reading
    transcriptionStatus,      \* what .transcription-status shows
    transcriptionText,        \* value of textarea[name="transcriptionText"]
    ended,                    \* how the last transcription request really ended
    runs,                     \* number of transcribeVideo calls so far
    interactiveWorkflow,      \* the object of the same name
    wcall,                    \* the last step of the interactive workflow
    sessionToken,             \* the variable of the same name, "" when null
    currentUser,              \* the variable of the same name, "" when null
    pendingSuggestions,       \* the variable of the same name
    pendingUpdatePayload,     \* the variable of the same name
    requests,                 \* the requests the last handler has sent
    screen,                   \* the screen that is active
    checked,                  \* ids of the checkboxes and radios that are checked
    inflight,                 \* requests sent whose response has not arrived
    derivedFor,               \* what the pending payload was derived against
    flights                   \* the transcribeVideo calls that have not returned

\* the client's side of the Store, and the Store
storeVars == <<projectCache, featureCache, activeProjectId, activeFeatureId, toast,
               store, call>>

\* the video transcription
transcribeVars == <<transcriptionInProgress, tstep, elapsed, response, transcriptionStatus,
                    transcriptionText, ended, runs>>

\* the interactive workflow
workflowVars == <<interactiveWorkflow, wcall>>

\* the session, the pending suggestions and the requests
appVars == <<sessionToken, currentUser, pendingSuggestions, pendingUpdatePayload, requests,
             screen, checked, inflight, derivedFor, flights>>

\* what the mapper and the form screen do not touch
restVars == <<storeVars, transcribeVars, workflowVars, appVars>>

vars == <<project, feature, formId, form, derived, formBefore, applied, edits, pc, hints,
          restVars>>

----------------------------------------------------------------------------
(* Bounds of the explored input space *)

MaxStoredLen == 2      \* longest stored value explored character by character
MaxIncomingLen == 3    \* longest submitted value explored character by character
MaxFilled == 2         \* most form fields filled at once
MaxStoredKeys == 1     \* most keys of a stored `general` holding a value
MaxTyped == 1          \* most text fields typed before the first action
MaxEdits == 1          \* most fields retyped by the user in a run

----------------------------------------------------------------------------
(* Strings *)

Str(n, alphabet) == UNION {[1..k -> alphabet] : k \in 0..n}

\* the characters of a string literal
Chars(s) == [i \in 1..Len(s) |-> SubSeq(s, i, i)]

UpperLetters == <<"A","B","C","D","E","F","G","H","I","J","K","L","M",
                  "N","O","P","Q","R","S","T","U","V","W","X","Y","Z">>
LowerLetters == <<"a","b","c","d","e","f","g","h","i","j","k","l","m",
                  "n","o","p","q","r","s","t","u","v","w","x","y","z">>

\* String.prototype.toLowerCase, one character
lowerChar(c) ==
    IF \E i \in 1..26 : UpperLetters[i] = c
    THEN LowerLetters[CHOOSE i \in 1..26 : UpperLetters[i] = c]
    ELSE c

\* String.prototype.toLowerCase
toLowerCase(s) == [i \in 1..Len(s) |-> lowerChar(s[i])]

\* white space removed by String.prototype.trim
IsSpace(c) == c \in {" ", "\n", "\t"}

\* String.prototype.trim
trim(s) ==
    IF \A i \in 1..Len(s) : IsSpace(s[i]) THEN <<>>
    ELSE LET lo == CHOOSE i \in 1..Len(s) :
                     ~IsSpace(s[i]) /\ \A j \in 1..(i-1) : IsSpace(s[j])
             hi == CHOOSE i \in 1..Len(s) :
                     ~IsSpace(s[i]) /\ \A j \in (i+1)..Len(s) : IsSpace(s[j])
         IN  SubSeq(s, lo, hi)

\* String.prototype.split on any character of `delims`.  For the class
\* /[,\n;]+/ a run of delimiters yields empty pieces here, which the
\* filter(Boolean) of every caller drops as it drops the leading and trailing
\* empty pieces of the real split.
RECURSIVE split(_, _)
split(s, delims) ==
    IF \A i \in 1..Len(s) : s[i] \notin delims THEN <<s>>
    ELSE LET d == CHOOSE i \in 1..Len(s) :
                    s[i] \in delims /\ \A j \in 1..(i-1) : s[j] \notin delims
         IN  <<SubSeq(s, 1, d-1)>> \o split(SubSeq(s, d+1, Len(s)), delims)

\* Array.prototype.filter(Boolean) on an array of strings
RECURSIVE filterNonEmpty(_)
filterNonEmpty(xs) ==
    IF xs = <<>> THEN <<>>
    ELSE IF Head(xs) = <<>> THEN filterNonEmpty(Tail(xs))
         ELSE <<Head(xs)>> \o filterNonEmpty(Tail(xs))

\* Array.prototype.join(", ")
RECURSIVE join(_)
join(xs) ==
    IF xs = <<>> THEN <<>>
    ELSE IF Len(xs) = 1 THEN xs[1]
         ELSE xs[1] \o <<",", " ">> \o join(Tail(xs))

normalizeList(val) ==
    LET pieces == split(val, {",", "\n", ";"})
    IN  filterNonEmpty([i \in 1..Len(pieces) |-> trim(pieces[i])])

\* a loop that does not record what it pushed
RECURSIVE mergeIntoNoAdd(_, _, _)
mergeIntoNoAdd(base, lower, incoming) ==
    IF incoming = <<>> THEN base
    ELSE LET trimmed == trim(Head(incoming))
         IN  IF trimmed # <<>> /\ toLowerCase(trimmed) \notin lower
             THEN mergeIntoNoAdd(Append(base, trimmed), lower, Tail(incoming))
             ELSE mergeIntoNoAdd(base, lower, Tail(incoming))

\* mergeList's loop over `incoming`; `lower` is the Set of lower-cased items
RECURSIVE mergeInto(_, _, _)
mergeInto(base, lower, incoming) ==
    IF incoming = <<>> THEN base
    ELSE LET val == Head(incoming)
             trimmed == trim(val)
         IN  IF val # <<>> /\ trimmed # <<>> /\ toLowerCase(trimmed) \notin lower
             THEN mergeInto(Append(base, trimmed),
                            lower \cup {toLowerCase(trimmed)}, Tail(incoming))
             ELSE mergeInto(base, lower, Tail(incoming))

\* a merge that puts the submitted items before the stored ones
mergeListIncomingFirst(existing, incoming) ==
    LET base == normalizeList(existing)
        lower == {toLowerCase(base[i]) : i \in 1..Len(base)}
    IN  join(mergeInto(<<>>, lower, incoming) \o base)

mergeList(existing, incoming) ==
    LET base == normalizeList(existing)
        lower == {toLowerCase(base[i]) : i \in 1..Len(base)}
    IN  join(mergeInto(base, lower, incoming))

----------------------------------------------------------------------------
(* Objects: a JavaScript object is a function from keys to values *)

EmptyObj == <<>>

SetKey(obj, k, v) == [x \in (DOMAIN obj) \cup {k} |-> IF x = k THEN v ELSE obj[x]]

\* getByPath: the reduce stops being defined at the first missing key; the
\* caller reads the result through `|| ""`, so undefined is the empty string.
RECURSIVE getByPath(_, _)
getByPath(obj, path) ==
    IF path = <<>> THEN obj
    ELSE IF Head(path) \in DOMAIN obj
         THEN getByPath(obj[Head(path)], Tail(path))
         ELSE <<>>

RECURSIVE setByPath(_, _, _)
setByPath(target, path, value) ==
    IF path = <<>> THEN target
    ELSE IF Len(path) = 1 THEN SetKey(target, path[1], value)
         ELSE LET key == Head(path)
                  cursor == IF key \in DOMAIN target THEN target[key] ELSE EmptyObj
              IN  SetKey(target, key, setByPath(cursor, Tail(path), value))

----------------------------------------------------------------------------
(* The semantic map *)

Meta(k, e, p, l, il) == [key |-> k, entity |-> e, path |-> <<"general", p>>,
                         label |-> l, isList |-> il]

\* Object.entries order is the order of the literal
FIELD_SEMANTIC_MAP ==
    [discovery |-> <<
        Meta("teamMembers", "project", "teamMembers", "Team members", TRUE),
        Meta("featureSize", "feature", "tShirtSize", "Feature size", FALSE),
        Meta("featureDescription", "feature", "description", "Feature description", FALSE),
        Meta("stakeholders", "project", "stakeholders", "Stakeholders", TRUE),
        Meta("business-objectives", "project", "goals", "Business objectives", FALSE),
        Meta("current-pain-points", "project", "issues", "Pain points", FALSE),
        Meta("success-metrics", "project", "goals", "Success metrics", FALSE) >>,
     stories |-> <<
        Meta("epicName", "feature", "name", "Epic/Feature name", FALSE),
        Meta("storyDetails", "feature", "description", "Story context (feature description)", FALSE),
        Meta("userRoles", "project", "roles", "User roles", TRUE),
        Meta("acceptanceCriteria", "project", "acStyle", "Acceptance criteria style", FALSE) >>,
     requirements |-> <<
        Meta("projectName", "project", "name", "Project name", FALSE),
        Meta("businessGoals", "project", "goals", "Business goals", FALSE),
        Meta("userTypes", "project", "roles", "User types/roles", TRUE),
        Meta("constraints", "project", "issues", "Constraints / pain points", FALSE),
        Meta("acceptanceCriteria", "project", "acStyle", "Acceptance criteria style", FALSE),
        Meta("meetingObjectives", "project", "goals", "Meeting objectives / goals", FALSE),
        Meta("meetingAttendees", "project", "teamMembers", "Attendees / team members", TRUE) >>]

\* a semantic hint as generateFormFields renders it from field.semantic:
\* el.id, dataset.entity, dataset.path, dataset.label ("" when not set) and
\* dataset.isList === "true"
Hint(n, e, p, l, il) == [name |-> n, entity |-> e, path |-> p, label |-> l, isList |-> il]

\* an overlay in which the static entry of a field outlives its hint
RECURSIVE overlayHintsKeepStatic(_, _)
overlayHintsKeepStatic(merged, semanticEls) ==
    IF semanticEls = <<>> THEN merged
    ELSE LET el == Head(semanticEls)
             entry == [key |-> el.name, entity |-> el.entity, path |-> el.path,
                       label |-> IF el.label # "" THEN el.label ELSE el.name,
                       isList |-> el.isList]
         IN  overlayHintsKeepStatic(
                 IF el.name = "" \/ \E i \in 1..Len(merged) : merged[i].key = el.name
                 THEN merged ELSE Append(merged, entry),
                 Tail(semanticEls))

\* semanticEls.forEach: merged[name] = {...}; an assignment to an existing key
\* keeps its place among the entries, a new key goes to the end
RECURSIVE overlayHints(_, _)
overlayHints(merged, semanticEls) ==
    IF semanticEls = <<>> THEN merged
    ELSE LET el == Head(semanticEls)
             entry == [key |-> el.name, entity |-> el.entity, path |-> el.path,
                       label |-> IF el.label # "" THEN el.label ELSE el.name,
                       isList |-> el.isList]
         IN  overlayHints(
                 IF el.name = "" THEN merged
                 ELSE IF \E i \in 1..Len(merged) : merged[i].key = el.name
                 THEN [i \in 1..Len(merged) |->
                          IF merged[i].key = el.name THEN entry ELSE merged[i]]
                 ELSE Append(merged, entry),
                 Tail(semanticEls))

\* buildSemanticMap: the static table of the phase, or {} for a phase without
\* one, overlaid with the hints of the rendered form.  No field of
\* phaseConfigs carries a `semantic` entry, so the forms of the repository
\* render no hint.
buildSemanticMap(phaseKey) ==
    overlayHints(IF phaseKey \in DOMAIN FIELD_SEMANTIC_MAP
                 THEN FIELD_SEMANTIC_MAP[phaseKey] ELSE <<>>,
                 hints)

----------------------------------------------------------------------------
(* Forward mapping *)

Absent == [present |-> FALSE]

\* `project?.details || {}` / `feature?.details || {}`
detailsOf(rec) == IF rec.present THEN rec.details ELSE EmptyObj

\* a filter that compares the items as written
RECURSIVE filterNewCaseSensitive(_, _)
filterNewCaseSensitive(incomingItems, currentList) ==
    IF incomingItems = <<>> THEN <<>>
    ELSE LET v == Head(incomingItems)
             rest == filterNewCaseSensitive(Tail(incomingItems), currentList)
         IN  IF \E i \in 1..Len(currentList) : currentList[i] = v
             THEN rest ELSE <<v>> \o rest

\* incomingItems.filter(v => !currentList.some(e => e.toLowerCase() === v.toLowerCase()))
RECURSIVE filterNew(_, _)
filterNew(incomingItems, currentList) ==
    IF incomingItems = <<>> THEN <<>>
    ELSE LET v == Head(incomingItems)
             rest == filterNew(Tail(incomingItems), currentList)
         IN  IF \E i \in 1..Len(currentList) :
                    toLowerCase(currentList[i]) = toLowerCase(v)
             THEN rest ELSE <<v>> \o rest

Suggestion(meta, old, new) ==
    [entity |-> meta.entity, path |-> meta.path, label |-> meta.label,
     oldValue |-> old, newValue |-> new]

\* a write that always goes to the project tree
emitToProject(acc, meta, old, new) ==
    [projectUpdates |-> setByPath(acc.projectUpdates, meta.path, new),
     featureUpdates |-> acc.featureUpdates,
     suggestions    |-> Append(acc.suggestions, Suggestion(meta, old, new))]

\* the write of one computed value and its suggestion
emit(acc, meta, old, new) ==
    [projectUpdates |-> IF meta.entity = "feature" THEN acc.projectUpdates
                        ELSE setByPath(acc.projectUpdates, meta.path, new),
     featureUpdates |-> IF meta.entity = "feature"
                        THEN setByPath(acc.featureUpdates, meta.path, new)
                        ELSE acc.featureUpdates,
     suggestions    |-> Append(acc.suggestions, Suggestion(meta, old, new))]

\* a submitted value taken as typed
trimmedValueRaw(value) == value

\* typeof value === "string" ? value.trim() : value; form values are strings
trimmedValue(value) == trim(value)

\* a comparison with the stored value as stored
scalarChangedRaw(currentVal, trimmed) == currentVal = <<>> \/ currentVal # trimmed

\* !currentString || currentString !== trimmed
scalarChanged(currentVal, trimmed) ==
    LET currentString == trim(currentVal)
    IN  currentString = <<>> \/ currentString # trimmed

\* the body of the forEach over the map entries
deriveField(acc, meta, prj, feat, formValues) ==
    IF meta.key \notin DOMAIN formValues THEN acc
    ELSE
    LET trimmed == trimmedValue(formValues[meta.key])
        entityDetails == IF meta.entity = "feature" THEN detailsOf(feat)
                         ELSE detailsOf(prj)
        currentVal == getByPath(entityDetails, meta.path)
    IN  IF trimmed = <<>> THEN acc
        ELSE IF meta.isList
        THEN LET incomingItems == normalizeList(trimmed)
                 currentList == normalizeList(currentVal)
                 newItems == filterNew(incomingItems, currentList)
             IN  IF incomingItems = <<>> \/ newItems = <<>> THEN acc
                 ELSE emit(acc, meta, currentVal, mergeList(currentVal, newItems))
        ELSE IF scalarChanged(currentVal, trimmed)
             THEN emit(acc, meta, currentVal, trimmed)
             ELSE acc

RECURSIVE deriveLoop(_, _, _, _, _)
deriveLoop(acc, map, prj, feat, formValues) ==
    IF map = <<>> THEN acc
    ELSE deriveLoop(deriveField(acc, Head(map), prj, feat, formValues),
                    Tail(map), prj, feat, formValues)

deriveProjectUpdates(prj, feat, phaseKey, formValues) ==
    deriveLoop([projectUpdates |-> [general |-> EmptyObj],
                featureUpdates |-> [general |-> EmptyObj],
                suggestions |-> <<>>],
               buildSemanticMap(phaseKey), prj, feat, formValues)

----------------------------------------------------------------------------
(* Write-back of confirmed suggestions (applySuggestions, success path) *)

\* Object.entries(updates.general).forEach(([key, val]) => general[key] = val),
\* which is also what the spread { ...general, ...featureUpdates.general } does
overlay(general, updates) ==
    [k \in (DOMAIN general) \cup (DOMAIN updates) |->
        IF k \in DOMAIN updates THEN updates[k] ELSE general[k]]

\* the details object sent in the PUT and stored back into the cache
mergeDetails(details, updates, phaseKey, formValues) ==
    LET general == IF "general" \in DOMAIN details THEN details.general ELSE EmptyObj
        phaseData == IF "phaseData" \in DOMAIN details THEN details.phaseData ELSE EmptyObj
        upd == IF "general" \in DOMAIN updates THEN updates.general ELSE EmptyObj
    IN  [general   |-> overlay(general, upd),
         phaseData |-> IF phaseKey # "" THEN SetKey(phaseData, phaseKey, formValues)
                       ELSE phaseData]

\* the project after the project PUT
savedProject(prj, payload, phaseKey, formValues) ==
    [present |-> TRUE,
     details |-> mergeDetails(detailsOf(prj), payload.projectUpdates, phaseKey, formValues)]

\* the feature after the feature PUT, which is sent only for an existing feature
\* and a non-empty featureUpdates.general
savedFeature(feat, payload, phaseKey, formValues) ==
    IF feat.present /\ DOMAIN payload.featureUpdates.general # {}
    THEN [present |-> TRUE,
          details |-> mergeDetails(detailsOf(feat), payload.featureUpdates, phaseKey, formValues)]
    ELSE feat

----------------------------------------------------------------------------
(* Rendered forms (phaseConfigs, generateFormFields) *)

\* obj[key], undefined read as ""
get(obj, key) == IF key \in DOMAIN obj THEN obj[key] ELSE <<>>

\* a || b on strings
Or(a, b) == IF a # <<>> THEN a ELSE b

\* String.prototype.includes
includes(s, t) == \E i \in 0..(Len(s) - Len(t)) : SubSeq(s, i + 1, i + Len(t)) = t

\* the label tests of applyHeuristicMapping, in the order of the code: the
\* words looked for in the lower-cased label
LabelTests ==
    << {"name", "title"}, {"feature"}, {"description", "overview"}, {"stakeholder"},
       {"goal", "objective", "success"}, {"requirement"}, {"pain", "issue"},
       {"role", "team"}, {"acceptance", "criteria", "gherkin"}, {"response", "summary"} >>

\* the tests a label passes
testsPassed(label) ==
    {k \in 1..Len(LabelTests) :
        \E word \in LabelTests[k] : includes(toLowerCase(label), Chars(word))}

\* a field of phaseConfigs as generateFormFields renders it: label.textContent
\* has the mark of a required field appended; a select gets the placeholder
\* option and then one option per entry of field.options
Field(n, l, t, opts, req) ==
    [name |-> n,
     label |-> Chars(l) \o (IF req THEN Chars(" *") ELSE <<>>),
     tests |-> testsPassed(Chars(l) \o (IF req THEN Chars(" *") ELSE <<>>)),
     type |-> t,
     options |-> IF t = "select"
                 THEN <<[value |-> <<>>, text |-> Chars("Select an option...")]>> \o
                      [i \in 1..Len(opts) |-> [value |-> Chars(opts[i]), text |-> Chars(opts[i])]]
                 ELSE <<>>,
     required |-> req]

\* phaseConfigs.stories.fields
StoriesFields ==
    << Field("epicName", "Epic Name", "text", <<>>, TRUE),
       Field("userRoles", "User Roles", "textarea", <<>>, TRUE),
       Field("storyFormat", "Story Format Preference", "select",
             <<"As a... I want... So that...", "Given... When... Then...",
               "User Story + Acceptance Criteria">>, TRUE),
       Field("acceptanceCriteria", "Acceptance Criteria Style", "select",
             <<"Simple bullet points", "Gherkin format (Given/When/Then)",
               "Detailed scenarios">>, TRUE),
       Field("storyDetails", "Story Context", "textarea", <<>>, TRUE),
       Field("storyInput", "Story Output Type", "select",
             <<"One story with multiple acceptance criteria",
               "Multiple stories with individual acceptance criteria">>, TRUE),
       Field("wireframesAttached", "Are there wireframes attached?", "select",
             <<"Yes", "No">>, TRUE) >>

\* phaseConfigs.requirements.fields as filtered by getFieldsForActivity for
\* the activity "General Requirements Gathering"
RequirementsFields ==
    << Field("projectName", "Project Name (Optional for Meeting Agenda)", "text", <<>>, FALSE),
       Field("businessGoals", "Business Goals", "textarea", <<>>, FALSE),
       Field("userTypes", "User Types", "textarea", <<>>, FALSE),
       Field("constraints", "Constraints & Limitations", "textarea", <<>>, FALSE),
       Field("acceptanceCriteria", "High-level Acceptance Criteria", "textarea", <<>>, FALSE),
       Field("filesUploaded", "Are there any files or documents uploaded?", "select",
             <<"Yes", "No">>, TRUE) >>

\* the fields generateFormFields has rendered into #form-fields; the forms
\* with a participant table or with date inputs are not rendered here
Rendered(phaseKey) ==
    IF phaseKey = "stories" THEN StoriesFields
    ELSE IF phaseKey = "requirements" THEN RequirementsFields
    ELSE <<>>

\* ids of the rendered elements: input.id = field.name
ElementIds(fields) == {fields[i].name : i \in 1..Len(fields)}

FieldNamed(fields, id) == fields[CHOOSE i \in 1..Len(fields) : fields[i].name = id]

\* el.value = val: a select takes only the value of one of its options and
\* reads "" otherwise; the values explored hold no line break, which a text
\* input would strip
setValue(field, val) ==
    IF field.type = "select"
    THEN IF \E i \in 1..Len(field.options) : field.options[i].value = val
         THEN val ELSE <<>>
    ELSE val

\* the visible required fields that the submission leaves empty
missingFields(fields, frm) ==
    {i \in 1..Len(fields) :
        fields[i].required /\ trim(get(frm, fields[i].name)) = <<>>}

----------------------------------------------------------------------------
(* Reverse mapping: prefillFromProject.  A step takes and returns            *)
(* [form |-> the element values, applied |-> the flag].                      *)

applyRawFormValues(values, fields, frm) ==
    [id \in DOMAIN frm |->
        IF id \in DOMAIN values /\ id \in ElementIds(fields)
        THEN setValue(FieldNamed(fields, id), values[id])
        ELSE frm[id]]

\* setFieldValue on an element that is no participant table
setFieldValue(fields, frm, id, val) ==
    SetKey(frm, id, setValue(FieldNamed(fields, id), val))

\* applied = setIfEmpty(id, val) || applied
setIfEmpty(st, fields, id, val) ==
    IF val = <<>> THEN st
    ELSE IF id \in ElementIds(fields) /\ id \in DOMAIN st.form /\ trim(st.form[id]) = <<>>
         THEN [form |-> setFieldValue(fields, st.form, id, val), applied |-> TRUE]
         ELSE st

\* the direct mappings of the three core phases, in the order of the calls
directMappings(phaseKey, featureGeneral, projectGeneral) ==
    IF phaseKey = "discovery" THEN
        << <<"teamMembers", get(projectGeneral, "teamMembers")>>,
           <<"stakeholders", get(projectGeneral, "stakeholders")>>,
           <<"featureDescription",
             Or(get(featureGeneral, "description"),
                Or(get(featureGeneral, "overview"), get(projectGeneral, "overview")))>>,
           <<"featureSize",
             Or(get(featureGeneral, "tShirtSize"),
                Or(get(featureGeneral, "size"),
                   Or(get(projectGeneral, "tShirtSize"), get(projectGeneral, "size"))))>>,
           <<"business-objectives", get(projectGeneral, "goals")>> >>
    ELSE IF phaseKey = "stories" THEN
        << <<"epicName", Or(get(featureGeneral, "name"), get(projectGeneral, "name"))>>,
           <<"storyDetails",
             Or(get(featureGeneral, "description"),
                Or(get(featureGeneral, "overview"), get(projectGeneral, "overview")))>>,
           <<"userRoles", get(projectGeneral, "roles")>>,
           <<"acceptanceCriteria", get(projectGeneral, "acStyle")>> >>
    ELSE IF phaseKey = "requirements" THEN
        << <<"projectName", get(projectGeneral, "name")>>,
           <<"businessGoals", get(projectGeneral, "goals")>>,
           <<"userTypes", get(projectGeneral, "roles")>>,
           <<"constraints", get(projectGeneral, "issues")>>,
           <<"acceptanceCriteria", get(projectGeneral, "acStyle")>>,
           <<"meetingObjectives", get(projectGeneral, "goals")>>,
           <<"meetingAttendees", get(projectGeneral, "teamMembers")>> >>
    ELSE <<>>

RECURSIVE setAllIfEmpty(_, _, _)
setAllIfEmpty(st, fields, pairs) ==
    IF pairs = <<>> THEN st
    ELSE setAllIfEmpty(setIfEmpty(st, fields, Head(pairs)[1], Head(pairs)[2]),
                       fields, Tail(pairs))

\* the loop of getVal over the ordered sources; meta.path is looked up in
\* each source as it is, "general" first
RECURSIVE fromSources(_, _, _)
fromSources(sources, meta, fieldKey) ==
    IF sources = <<>> THEN <<>>
    ELSE LET src == Head(sources)
             direct == getByPath(src, meta.path)
             own == get(src, fieldKey)
         IN  IF direct # <<>>
             THEN IF meta.isList THEN join(normalizeList(direct)) ELSE direct
             ELSE IF own # <<>>
             THEN IF meta.isList THEN join(normalizeList(own)) ELSE own
             ELSE fromSources(Tail(sources), meta, fieldKey)

pathText(meta) == Chars(meta.path[1]) \o <<".">> \o Chars(meta.path[2])

\* a value found in a source is returned; a scalar field routed to a
\* description falls back to an overview
getVal(meta, fieldKey, sources, featureGeneral, projectGeneral) ==
    IF fromSources(sources, meta, fieldKey) # <<>>
    THEN fromSources(sources, meta, fieldKey)
    ELSE IF ~meta.isList /\ includes(pathText(meta), Chars("description"))
    THEN Or(get(featureGeneral, "overview"),
            Or(get(projectGeneral, "overview"),
               Or(get(featureGeneral, "description"), get(projectGeneral, "description"))))
    ELSE <<>>

\* the forEach over the entries of the semantic map
RECURSIVE mapPass(_, _, _, _, _, _)
mapPass(st, fields, map, sources, featureGeneral, projectGeneral) ==
    IF map = <<>> THEN st
    ELSE LET meta == Head(map)
             val == getVal(meta, meta.key, sources, featureGeneral, projectGeneral)
             next == IF meta.key \notin ElementIds(fields) \/ meta.key \notin DOMAIN st.form
                        THEN st
                     ELSE IF trim(st.form[meta.key]) # <<>> THEN st
                     ELSE IF val = <<>> THEN st
                     ELSE [form |-> setFieldValue(fields, st.form, meta.key, val),
                           applied |-> TRUE]
         IN  mapPass(next, fields, Tail(map), sources, featureGeneral, projectGeneral)

mapTargets(general) ==
    << [ids |-> <<"project-name", "projectName">>, value |-> get(general, "name")],
       [ids |-> <<"project-description", "featureDescription", "businessGoals",
                  "business-objectives", "functional-requirements", "current-pain-points">>,
        value |-> Or(get(general, "overview"), get(general, "description"))],
       [ids |-> <<"featureDescription">>,
        value |-> Or(get(general, "description"), get(general, "overview"))],
       [ids |-> <<"stakeholders", "key-stakeholders">>, value |-> get(general, "stakeholders")],
       [ids |-> <<"goals", "primary-goals", "acceptanceCriteria", "success-metrics",
                  "non-functional-requirements">>,
        value |-> get(general, "goals")] >>

RECURSIVE applyToIds(_, _, _, _)
applyToIds(st, fields, ids, value) ==
    IF ids = <<>> THEN st
    ELSE LET id == Head(ids)
             next == IF id \in ElementIds(fields) /\ id \in DOMAIN st.form
                        /\ trim(st.form[id]) = <<>>
                     THEN [form |-> SetKey(st.form, id, setValue(FieldNamed(fields, id), value)),
                           applied |-> TRUE]
                     ELSE st
         IN  applyToIds(next, fields, Tail(ids), value)

RECURSIVE applyTargets(_, _, _)
applyTargets(st, fields, targets) ==
    IF targets = <<>> THEN st
    ELSE applyTargets(IF Head(targets).value = <<>> THEN st
                      ELSE applyToIds(st, fields, Head(targets).ids, Head(targets).value),
                      fields, Tail(targets))

\* returns the form it leaves and, as `applied`, its return value
applyGeneralMapping(general, fields, frm) ==
    applyTargets([form |-> frm, applied |-> FALSE], fields, mapTargets(general))

\* candidates.find((v) => v && v.trim())
RECURSIVE firstFilled(_)
firstFilled(candidates) ==
    IF candidates = <<>> THEN <<>>
    ELSE IF Head(candidates) # <<>> /\ trim(Head(candidates)) # <<>> THEN Head(candidates)
         ELSE firstFilled(Tail(candidates))

\* the candidates pushed for a label that passes the tests in `passed`, in
\* the order of the tests
candidatesFor(passed, data) ==
    (IF 1 \in passed THEN <<get(data, "name")>> ELSE <<>>)
    \o (IF 2 \in passed
        THEN <<Or(get(data, "featureDescription"),
                  Or(get(data, "description"), get(data, "overview")))>> ELSE <<>>)
    \o (IF 3 \in passed
        THEN <<Or(get(data, "description"), get(data, "overview"))>> ELSE <<>>)
    \o (IF 4 \in passed THEN <<get(data, "stakeholders")>> ELSE <<>>)
    \o (IF 5 \in passed
        THEN <<get(data, "goals")>> ELSE <<>>)
    \o (IF 6 \in passed
        THEN <<Or(get(data, "requirements"), get(data, "overview"))>> ELSE <<>>)
    \o (IF 7 \in passed
        THEN <<Or(get(data, "issues"), get(data, "overview"))>> ELSE <<>>)
    \o (IF 8 \in passed
        THEN <<Or(get(data, "roles"), get(data, "teamMembers"))>> ELSE <<>>)
    \o (IF 9 \in passed
        THEN <<get(data, "acStyle")>> ELSE <<>>)
    \o (IF 10 \in passed
        THEN <<Or(get(data, "llmResponse"),
                  Or(get(data, "requirements"), get(data, "overview")))>> ELSE <<>>)

\* rolesString.split(",").map(r => r.trim().toLowerCase()).filter(Boolean)
roleTokens(rolesString) ==
    LET pieces == split(rolesString, {","})
    IN  filterNonEmpty([i \in 1..Len(pieces) |-> toLowerCase(trim(pieces[i]))])

score(opt, token) ==
    LET optText == toLowerCase(opt.text)
        optVal == toLowerCase(opt.value)
        direct == optText = token \/ optVal = token
        partial == includes(optText, token) \/ includes(token, optText)
                      \/ includes(optVal, token)
    IN  IF direct THEN Len(token) + 5 ELSE IF partial THEN Len(token) ELSE 0

\* the two nested forEach: options outside, tokens inside; `best` is the index
\* of bestMatch, 0 for null.  `score > bestScore` replaces the match only by a
\* higher score, so the match left is the first, in the order of the two
\* loops, of those with the highest score.
bestMatch(options, tokens) ==
    LET pairs == {<<o, t>> : o \in 1..Len(options), t \in 1..Len(tokens)}
        scores == [p \in pairs |-> score(options[p[1]], tokens[p[2]])]
        earlier(p, q) == p[1] < q[1] \/ (p[1] = q[1] /\ p[2] < q[2])
    IN  IF \A p \in pairs : scores[p] = 0 THEN [best |-> 0, bestScore |-> 0]
        ELSE LET first == CHOOSE p \in pairs :
                             \A q \in pairs : \/ scores[q] < scores[p]
                                               \/ (scores[q] = scores[p] /\ ~earlier(q, p))
             IN  [best |-> first[1], bestScore |-> scores[first]]

\* the body of inputs.forEach
heuristicField(st, field, data) ==
    IF trim(st.form[field.name]) # <<>> THEN st
    ELSE IF field.type \in {"date", "time", "datetime-local", "number"} THEN st
    ELSE LET candidates == candidatesFor(field.tests, data)
         IN  IF field.type = "select"
             THEN LET found == bestMatch(field.options, roleTokens(firstFilled(candidates)))
                  IN  IF found.best # 0
                      THEN [form |-> SetKey(st.form, field.name,
                                            field.options[found.best].value),
                            applied |-> TRUE]
                      ELSE st
             ELSE IF firstFilled(candidates) # <<>>
                  THEN [form |-> SetKey(st.form, field.name, firstFilled(candidates)),
                        applied |-> TRUE]
                  ELSE st

RECURSIVE heuristicLoop(_, _, _)
heuristicLoop(st, fields, data) ==
    IF fields = <<>> THEN st
    ELSE heuristicLoop(IF Head(fields).name \in DOMAIN st.form
                       THEN heuristicField(st, Head(fields), data) ELSE st,
                       Tail(fields), data)

applyHeuristicMapping(data, fields, frm) ==
    heuristicLoop([form |-> frm, applied |-> FALSE], fields, data)

\* applyGeneralMapping(projectGeneral) || applyGeneralMapping(featureGeneral)
\*   || applyHeuristicMapping({...}) || applied, evaluated left to right
fallback(st, fields, projectGeneral, featureGeneral, phaseValues, savedResponse) ==
    LET byProject == applyGeneralMapping(projectGeneral, fields, st.form)
        byFeature == applyGeneralMapping(featureGeneral, fields, st.form)
        data == SetKey(overlay(overlay(projectGeneral, featureGeneral), phaseValues),
                       "llmResponse", savedResponse)
        byLabel == applyHeuristicMapping(data, fields, st.form)
    IN  IF byProject.applied THEN byProject
        ELSE IF byFeature.applied THEN byFeature
        ELSE byLabel

\* the states of the form in a run of prefillFromProject for a project or a
\* feature at hand: after the saved phase data (raw), after the direct
\* mappings (direct), after the pass over the semantic map (mapped), and at
\* the end (final)
prefillSteps(prj, feat, phaseKey, fields, frm) ==
    LET projDetails == detailsOf(prj)
        featDetails == detailsOf(feat)
        featurePhaseData == get(featDetails, "phaseData")
        featureGeneral == get(featDetails, "general")
        projectPhaseData == get(projDetails, "phaseData")
        projectGeneral == get(projDetails, "general")
        phaseValues == Or(get(featurePhaseData, phaseKey), get(projectPhaseData, phaseKey))
        raw == IF DOMAIN phaseValues # {}
               THEN [form |-> applyRawFormValues(phaseValues, fields, frm), applied |-> TRUE]
               ELSE [form |-> frm, applied |-> FALSE]
        savedResponse == Or(get(get(featurePhaseData, phaseKey), "llmResponse"),
                            get(get(projectPhaseData, phaseKey), "llmResponse"))
        sources == << featureGeneral, projectGeneral,
                      get(featurePhaseData, phaseKey), get(projectPhaseData, phaseKey),
                      IF savedResponse # <<>> THEN ("llmResponse" :> savedResponse)
                      ELSE EmptyObj >>
        direct == setAllIfEmpty(raw, fields,
                                directMappings(phaseKey, featureGeneral, projectGeneral))
        mapped == mapPass(direct, fields, buildSemanticMap(phaseKey), sources,
                          featureGeneral, projectGeneral)
        final == IF mapped.applied THEN mapped
                 ELSE fallback(mapped, fields, projectGeneral, featureGeneral,
                               phaseValues, savedResponse)
    IN  [raw |-> raw, direct |-> direct, mapped |-> mapped, final |-> final]

prefillFromProject(prj, feat, phaseKey, fields, frm) ==
    prefillSteps(prj, feat, phaseKey, fields, frm).final

----------------------------------------------------------------------------
(* Input spaces *)

Alphabet == {"a", "A", "b", ",", " "}

\* short values for runs with several fields: plain, different, untrimmed-only
Vals == {<<"a">>, <<"b">>, <<" ">>}

Phases == {"discovery", "stories", "requirements", "wireframing"}

\* the ids of the submitted RawFormValues: the mapped fields of the phase; a
\* phase without a table has only unmapped fields
FieldIds(phaseKey) ==
    IF phaseKey \in DOMAIN FIELD_SEMANTIC_MAP
    THEN {FIELD_SEMANTIC_MAP[phaseKey][i].key : i \in 1..Len(FIELD_SEMANTIC_MAP[phaseKey])}
    ELSE {"screenName"}

MetaOf(phaseKey, fieldKey) ==
    LET map == buildSemanticMap(phaseKey)
    IN  map[CHOOSE i \in 1..Len(map) : map[i].key = fieldKey]

ProjectKeys == {"name", "overview", "stakeholders", "teamMembers", "roles",
                "acStyle", "goals", "issues"}
FeatureKeys == {"name", "description", "tShirtSize"}

\* saveProject and saveFeature refuse an empty name and store it trimmed
Named(general, name) ==
    IF trim(get(general, "name")) # <<>>
    THEN SetKey(general, "name", trim(general.name))
    ELSE SetKey(general, "name", name)

\* a stored entity that no phase submission has been saved to yet
Entity(general) ==
    [present |-> TRUE,
     details |-> [general |-> Named(general, <<"n">>), phaseData |-> EmptyObj]]

\* an entity whose every general key holds v (only a name when v is empty)
Uniform(keys, v) == Entity(IF v = <<>> THEN EmptyObj ELSE [k \in keys |-> v])

NoResult == [projectUpdates |-> [general |-> EmptyObj],
             featureUpdates |-> [general |-> EmptyObj],
             suggestions |-> <<>>]

----------------------------------------------------------------------------
(* The runs of the mapper and of the form screen take the project and the   *)
(* feature as found in the caches for the active ids (`project`, `feature`) *)
(* and leave the caches, the Store and the notifications aside.             *)

NoCall == [op |-> "", failed |-> FALSE, n |-> 0, before |-> <<>>, form |-> ""]

StoreIdle ==
    /\ projectCache = <<>>
    /\ featureCache = <<>>
    /\ activeProjectId = ""
    /\ activeFeatureId = ""
    /\ toast = ""
    /\ store = <<>>
    /\ call = NoCall

NoResponse == [ok |-> FALSE, text |-> "none", result |-> <<>>]

TranscribeIdle ==
    /\ transcriptionInProgress = FALSE
    /\ tstep = "idle"
    /\ elapsed = 0
    /\ response = NoResponse
    /\ transcriptionStatus = ""
    /\ transcriptionText = ""
    /\ ended = ""
    /\ runs = 0

NoWorkflow == [isActive |-> FALSE, currentPhase |-> 0, totalPhases |-> 0,
               phaseResults |-> <<>>, currentFormData |-> <<>>]

NoStep == [op |-> "", n |-> 0, phaseIndex |-> 0, before |-> <<>>]

WorkflowIdle ==
    /\ interactiveWorkflow = NoWorkflow
    /\ wcall = NoStep

\* null
Null == <<>>

\* nobody logged in, nothing pending, nothing sent
AppIdle ==
    /\ sessionToken = ""
    /\ currentUser = ""
    /\ pendingSuggestions = <<>>
    /\ pendingUpdatePayload = Null
    /\ requests = <<>>
    /\ screen = ""
    /\ checked = {}
    /\ inflight = <<>>
    /\ derivedFor = <<>>
    /\ flights = <<>>

RestIdle == StoreIdle /\ TranscribeIdle /\ WorkflowIdle /\ AppIdle

----------------------------------------------------------------------------
(* Actions *)

\* deriveProjectUpdates applied to the current inputs (runGeneratePrompt,
\* the derivation of the pending suggestions)
Derive ==
    /\ pc \in {"input", "persisted"}
    /\ derived' = deriveProjectUpdates(project, feature, formId, form)
    /\ pc' = IF pc = "input" THEN "derived" ELSE "rederived"
    /\ UNCHANGED <<project, feature, formId, form, formBefore, applied, edits, hints>>
    /\ UNCHANGED restVars

\* applySuggestions, success path: reachable from the suggestion banner, which
\* is shown for a non-empty suggestion list; the pending payload is written
\* into the entities together with the form values read at that moment
Persist ==
    /\ pc = "derived"
    /\ project.present
    /\ derived.suggestions # <<>>
    /\ project' = savedProject(project, derived, formId, form)
    /\ feature' = savedFeature(feature, derived, formId, form)
    /\ pc' = "persisted"
    /\ UNCHANGED <<formId, form, derived, formBefore, applied, edits, hints>>
    /\ UNCHANGED restVars

Next == Derive \/ Persist

\* the worked examples of the specification and inputs with several items
AlicePM == Chars("Alice - PM")
AliceBob == Chars("Alice - PM, Bob - Dev")
AliceSemiBob == Chars("Alice - PM; Bob - Dev")
BobCarol == Chars("bob - Dev, Carol - QA")
DevTwice == Chars("Dev, dev")
QaLines == Chars("QA") \o <<"\n">> \o Chars("qa ;Ops")
AcmeCorp == Chars("Acme Corp")
AcmeCorpPadded == Chars(" Acme Corp ")
AcmeCo == Chars("Acme Co")

\* the entities of a run in which only the path of `meta` holds a value
StoredAt(meta, cur) ==
    LET ent == Entity(IF cur = <<>> THEN EmptyObj ELSE (meta.path[2] :> cur))
    IN  [project |-> IF meta.entity = "project" THEN ent ELSE Entity(EmptyObj),
         feature |-> IF meta.entity = "feature" THEN ent ELSE Entity(EmptyObj)]

\* several fields at once, short values
InitMany ==
    /\ formId \in Phases
    /\ \E v \in Vals \cup {<<>>} : project \in {Absent, Uniform(ProjectKeys, v)}
    /\ \E v \in Vals \cup {<<>>} : feature \in {Absent, Uniform(FeatureKeys, v)}
    /\ \E filled \in SUBSET FieldIds(formId) :
         /\ Cardinality(filled) <= MaxFilled
         /\ \E vals \in [filled -> Vals], sparse \in BOOLEAN :
              form = [f \in IF sparse THEN filled ELSE FieldIds(formId) |->
                         IF f \in filled THEN vals[f] ELSE <<>>]

\* the end-to-end scenario: stored stakeholders "Alice - PM", a discovery
\* submission with stakeholders "Alice - PM; Bob - Dev" and nothing else
InitEndToEnd ==
    /\ formId = "discovery"
    /\ project = StoredAt(MetaOf("discovery", "stakeholders"), AlicePM).project
    /\ feature = StoredAt(MetaOf("discovery", "stakeholders"), AlicePM).feature
    /\ form = [f \in FieldIds("discovery") |->
                  IF f = "stakeholders" THEN AliceSemiBob ELSE <<>>]

Init ==
    /\ hints = <<>>
    /\ RestIdle
    /\ InitMany \/ InitEndToEnd
    /\ derived = NoResult
    /\ formBefore = form
    /\ applied = FALSE
    /\ edits = 0
    /\ pc = "input"

Spec == Init /\ [][Next]_vars

\* one field, every value up to the length bounds
FocusFields == {<<"discovery", "stakeholders">>, <<"discovery", "featureDescription">>}

\* <<phase, field, stored value, submitted value>>
Examples ==
    {<<"discovery", "stakeholders", AliceBob, BobCarol>>,
     <<"discovery", "stakeholders", AlicePM, AliceSemiBob>>,
     <<"stories", "userRoles", DevTwice, QaLines>>,
     <<"requirements", "userTypes", AlicePM, QaLines>>,
     <<"requirements", "projectName", AcmeCorp, AcmeCorpPadded>>,
     <<"requirements", "projectName", AcmeCorp, AcmeCo>>}

Cases ==
    {<<pf[1], pf[2], cur, inc>> : pf \in FocusFields,
                                  cur \in Str(MaxStoredLen, Alphabet),
                                  inc \in Str(MaxIncomingLen, Alphabet)}
    \cup Examples

InitField ==
    /\ hints = <<>>
    /\ RestIdle
    /\ \E c \in Cases :
         LET st == StoredAt(MetaOf(c[1], c[2]), c[3])
         IN  /\ formId = c[1]
             /\ form = (c[2] :> c[4])
             /\ project = st.project
             /\ feature = st.feature
    /\ derived = NoResult
    /\ formBefore = form
    /\ applied = FALSE
    /\ edits = 0
    /\ pc = "input"

SpecField == InitField /\ [][Next]_vars

----------------------------------------------------------------------------
(* The form screen: fill, generate, save suggestions, retype, prefill *)

StoredVals == {<<"a">>, <<"b">>}

\* a `general` as saveProject / saveFeature write it: every key of the modal,
\* the name and some of the others holding a value
Generals(keys, most, name) ==
    UNION {{[k \in keys |-> IF k = "name" THEN name
                            ELSE IF k \in K THEN vals[k] ELSE <<>>] :
                vals \in [K -> StoredVals]} :
              K \in {X \in SUBSET (keys \ {"name"}) : Cardinality(X) <= most}}

ProjectModalKeys == {"overview", "stakeholders", "teamMembers", "roles", "acStyle", "name"}

TextIds(fields) == {fields[i].name : i \in {j \in 1..Len(fields) : fields[j].type # "select"}}

\* what the user can put into a field
TypedValues(field) ==
    IF field.type = "select" THEN {field.options[i].value : i \in 1..Len(field.options)}
    ELSE StoredVals \cup {<<>>}

\* a form as rendered, or filled in by the user: some text fields typed, the
\* selects all untouched or all set to their first choice
InitPrefill ==
    /\ hints = <<>>
    /\ RestIdle
    /\ formId \in {"stories", "requirements"}
    /\ \E general \in Generals(ProjectModalKeys, MaxStoredKeys, <<"p">>) :
         project = Entity(general)
    /\ \/ feature = Absent
       \/ \E general \in Generals(FeatureKeys, MaxStoredKeys, <<"f">>) :
            feature = Entity(general)
    /\ \E filled \in SUBSET TextIds(Rendered(formId)), chosen \in BOOLEAN :
         /\ Cardinality(filled) <= MaxTyped
         /\ \E vals \in [filled -> StoredVals] :
              form = [id \in ElementIds(Rendered(formId)) |->
                        IF id \in filled THEN vals[id]
                        ELSE IF chosen /\ id \notin TextIds(Rendered(formId))
                             THEN FieldNamed(Rendered(formId), id).options[2].value
                             ELSE <<>>]
    /\ derived = NoResult
    /\ formBefore = form
    /\ applied = FALSE
    /\ edits = 0
    /\ pc = "input"

\* the user changes the value of one rendered field
Type ==
    /\ pc \in {"persisted", "typed"}
    /\ edits < MaxEdits
    /\ \E i \in 1..Len(Rendered(formId)) :
         \E v \in TypedValues(Rendered(formId)[i]) :
            /\ Rendered(formId)[i].name \in DOMAIN form
            /\ v # form[Rendered(formId)[i].name]
            /\ form' = SetKey(form, Rendered(formId)[i].name, v)
    /\ edits' = edits + 1
    /\ pc' = "typed"
    /\ UNCHANGED <<project, feature, formId, derived, formBefore, applied, hints>>
    /\ UNCHANGED restVars

\* runGeneratePrompt on the form screen: it returns at a missing required
\* field, and otherwise derives the pending suggestions from the form
runGeneratePrompt ==
    /\ pc \in {"input", "persisted", "typed", "prefilled", "reprefilled"}
    /\ Rendered(formId) # <<>>
    /\ missingFields(Rendered(formId), form) = {}
    /\ derived' = deriveProjectUpdates(project, feature, formId, form)
    /\ pc' = "derived"
    /\ UNCHANGED <<project, feature, formId, form, formBefore, applied, edits, hints>>
    /\ UNCHANGED restVars

\* prefillFromProject with a project or a feature at hand and a rendered form
Prefill ==
    /\ pc \in {"input", "persisted", "typed", "prefilled"}
    /\ project.present \/ feature.present
    /\ Rendered(formId) # <<>>
    /\ LET result == prefillFromProject(project, feature, formId, Rendered(formId), form)
       IN  /\ form' = result.form
           /\ applied' = result.applied
    /\ formBefore' = form
    /\ pc' = IF pc = "prefilled" THEN "reprefilled" ELSE "prefilled"
    /\ UNCHANGED <<project, feature, formId, derived, edits, hints>>
    /\ UNCHANGED restVars

NextPrefill == runGeneratePrompt \/ Persist \/ Type \/ Prefill

SpecPrefill == InitPrefill /\ [][NextPrefill]_vars

----------------------------------------------------------------------------
(* Vocabulary of the properties *)

\* `derived` is the result of deriveProjectUpdates on the current inputs
AtResult == pc \in {"derived", "rederived"}

MapEntries == {buildSemanticMap(formId)[i] : i \in 1..Len(buildSemanticMap(formId))}

\* labels are unique within a phase, so a suggestion names its field
MetaOfLabel(label) == CHOOSE m \in MapEntries : m.label = label

SuggestionIdx == 1..Len(derived.suggestions)

SuggestionsOf(meta) == {i \in SuggestionIdx : derived.suggestions[i].label = meta.label}

\* the stored value the field is compared with
CurrentOf(meta) ==
    LET rec == IF meta.entity = "feature" THEN feature ELSE project
    IN  IF rec.present /\ meta.path[2] \in DOMAIN rec.details.general
        THEN rec.details.general[meta.path[2]] ELSE <<>>

UpdatesOf(entity) ==
    IF entity = "feature" THEN derived.featureUpdates ELSE derived.projectUpdates

Submitted(meta) == IF meta.key \in DOMAIN form THEN form[meta.key] ELSE <<>>

\* the field submitted nothing: missing, empty or white space only
Blank(meta) == trim(Submitted(meta)) = <<>>

SameTarget(m1, m2) == m1.entity = m2.entity /\ m1.path = m2.path

EqualIgnoringCase(x, y) == toLowerCase(x) = toLowerCase(y)

\* the items of xs at the positions in K, in order
RECURSIVE PickAt(_, _, _)
PickAt(xs, K, i) ==
    IF i > Len(xs) THEN <<>>
    ELSE (IF i \in K THEN <<xs[i]>> ELSE <<>>) \o PickAt(xs, K, i + 1)

\* the items of `inc` that are in neither `cur` nor earlier in `inc`
FirstNewPositions(inc, cur) ==
    {i \in 1..Len(inc) :
        /\ \A j \in 1..Len(cur) : ~EqualIgnoringCase(cur[j], inc[i])
        /\ \A j \in 1..(i-1) : ~EqualIgnoringCase(inc[j], inc[i])}

ListSuggestions ==
    {i \in SuggestionIdx : MetaOfLabel(derived.suggestions[i].label).isList}

----------------------------------------------------------------------------
(* C1: forward mapping, then the write-back of its updates, then forward     *)
(* mapping again on the same form values yields no suggestion, for a present *)
(* project and feature and every phase of the semantic map.                  *)
C1_Idempotence ==
    (pc = "rederived" /\ project.present /\ feature.present)
        => derived.suggestions = <<>>

----------------------------------------------------------------------------
(* C2: the merged value of a list field is the stored items in their order,  *)
(* followed by the submitted items that are new ignoring case, in the order  *)
(* they are met, joined with ", ".                                           *)
C2_MergeAppendOnly ==
    AtResult =>
        \A i \in ListSuggestions :
            LET s == derived.suggestions[i]
                meta == MetaOfLabel(s.label)
                cur == normalizeList(CurrentOf(meta))
                inc == normalizeList(Submitted(meta))
            IN  /\ s.oldValue = CurrentOf(meta)
                /\ s.newValue = join(cur \o PickAt(inc, FirstNewPositions(inc, cur), 1))

\* a merge that kept two stored items and appended two new ones in order
C2_Witness ==
    /\ pc = "derived"
    /\ \E i \in ListSuggestions :
          LET s == derived.suggestions[i]
              cur == normalizeList(s.oldValue)
              new == normalizeList(s.newValue)
          IN  Len(cur) >= 1 /\ Len(new) >= Len(cur) + 2

----------------------------------------------------------------------------
(* C3 as stated: the merged list never holds two items equal ignoring case,  *)
(* whatever the stored value was.                                            *)
C3_NoCaseDuplicates ==
    AtResult =>
        \A i \in ListSuggestions :
            LET merged == normalizeList(derived.suggestions[i].newValue)
            IN  \A j, k \in 1..Len(merged) :
                    j < k => ~EqualIgnoringCase(merged[j], merged[k])

(* C3 amended: two items of the merged list that are equal ignoring case     *)
(* were both in the stored value; the merge adds no item that equals a       *)
(* stored or an added one, so a stored list without such duplicates merges   *)
(* into a list without them.                                                 *)
C3_NoAddedCaseDuplicates ==
    AtResult =>
        \A i \in ListSuggestions :
            LET merged == normalizeList(derived.suggestions[i].newValue)
                stored == normalizeList(derived.suggestions[i].oldValue)
            IN  \A j, k \in 1..Len(merged) :
                    (j < k /\ EqualIgnoringCase(merged[j], merged[k]))
                        => k <= Len(stored)

\* a merge whose submitted value held the same new item twice, in two cases
C3_Witness ==
    /\ pc = "derived"
    /\ \E i \in ListSuggestions :
          LET s == derived.suggestions[i]
              inc == normalizeList(Submitted(MetaOfLabel(s.label)))
              cur == normalizeList(s.oldValue)
          IN  \E j, k \in 1..Len(inc) :
                 /\ j < k /\ inc[j] # inc[k] /\ EqualIgnoringCase(inc[j], inc[k])
                 /\ \A n \in 1..Len(cur) : ~EqualIgnoringCase(cur[n], inc[j])

----------------------------------------------------------------------------
(* C4: a scalar field with a non-empty submitted value yields nothing when   *)
(* the stored value equals it after trimming both, and otherwise exactly one *)
(* suggestion from the stored value to the trimmed submitted value.          *)
C4_ScalarOverwriteOnChange ==
    AtResult =>
        \A meta \in MapEntries :
            (~meta.isList /\ ~Blank(meta)) =>
                IF trim(CurrentOf(meta)) = trim(Submitted(meta))
                THEN /\ SuggestionsOf(meta) = {}
                     /\ (\A m \in MapEntries : SameTarget(m, meta) => SuggestionsOf(m) = {})
                            => meta.path[2] \notin DOMAIN UpdatesOf(meta.entity).general
                ELSE /\ Cardinality(SuggestionsOf(meta)) = 1
                     /\ \A i \in SuggestionsOf(meta) :
                          /\ derived.suggestions[i].oldValue = CurrentOf(meta)
                          /\ derived.suggestions[i].newValue = trim(Submitted(meta))

\* a scalar submitted with surrounding white space over the same stored value
C4_Witness ==
    /\ pc = "derived"
    /\ \E meta \in MapEntries :
          /\ ~meta.isList /\ ~Blank(meta)
          /\ Submitted(meta) # trim(Submitted(meta))
          /\ trim(CurrentOf(meta)) = trim(Submitted(meta))
          /\ derived.suggestions = <<>>

----------------------------------------------------------------------------
(* C5: a mapped field submitted missing, empty or white space only yields no *)
(* suggestion, and nothing is written at its path unless another field of    *)
(* the form routed there submitted a value.                                  *)
C5_EmptyNeverUpdates ==
    AtResult =>
        \A meta \in MapEntries :
            Blank(meta) =>
                /\ SuggestionsOf(meta) = {}
                /\ (\A m \in MapEntries : SameTarget(m, meta) => Blank(m))
                      => meta.path[2] \notin DOMAIN UpdatesOf(meta.entity).general

\* a white-space-only field over a stored value, next to a field that did
\* produce a suggestion
C5_Witness ==
    /\ pc = "derived"
    /\ derived.suggestions # <<>>
    /\ \E meta \in MapEntries :
          /\ meta.key \in DOMAIN form /\ form[meta.key] # <<>> /\ Blank(meta)
          /\ CurrentOf(meta) # <<>>

----------------------------------------------------------------------------
(* C6: a list field yields a suggestion exactly when the submitted value     *)
(* holds an item absent, ignoring case, from the stored list, and no update  *)
(* entry otherwise; every suggestion changes the value.                      *)
C6_ListSuggestionIffNewItem ==
    AtResult =>
        /\ \A meta \in MapEntries :
              meta.isList =>
                LET cur == normalizeList(CurrentOf(meta))
                    inc == normalizeList(Submitted(meta))
                    hasNew == \E i \in 1..Len(inc) :
                                \A j \in 1..Len(cur) : ~EqualIgnoringCase(cur[j], inc[i])
                IN  /\ (SuggestionsOf(meta) # {}) <=> hasNew
                    /\ (\A m \in MapEntries : SameTarget(m, meta) => SuggestionsOf(m) = {})
                          => meta.path[2] \notin DOMAIN UpdatesOf(meta.entity).general
        /\ \A i \in SuggestionIdx :
              derived.suggestions[i].newValue # derived.suggestions[i].oldValue

\* a list submitted with only items already stored in another case
C6_Witness ==
    /\ pc = "derived"
    /\ \E meta \in MapEntries :
          /\ meta.isList
          /\ normalizeList(Submitted(meta)) # <<>>
          /\ trim(Submitted(meta)) # trim(CurrentOf(meta))
          /\ derived = NoResult

----------------------------------------------------------------------------
(* C7: every computed value is written only into the update tree of the      *)
(* entity of its field, at the path of its field, and its suggestion carries *)
(* that entity and path; the end-to-end scenario yields exactly the one      *)
(* stakeholders suggestion and no feature update.                            *)
LastAt(entity, key) ==
    CHOOSE i \in SuggestionIdx :
        /\ derived.suggestions[i].entity = entity
        /\ derived.suggestions[i].path = <<"general", key>>
        /\ \A j \in SuggestionIdx :
              (derived.suggestions[j].entity = entity
                /\ derived.suggestions[j].path = <<"general", key>>) => j <= i

RoutedTo(entity) ==
    LET tree == UpdatesOf(entity)
    IN  /\ DOMAIN tree = {"general"}
        /\ DOMAIN tree.general =
              {derived.suggestions[i].path[2] :
                  i \in {j \in SuggestionIdx : derived.suggestions[j].entity = entity}}
        /\ \A key \in DOMAIN tree.general :
              tree.general[key] = derived.suggestions[LastAt(entity, key)].newValue

EndToEndInputs ==
    /\ formId = "discovery"
    /\ project = StoredAt(MetaOf("discovery", "stakeholders"), AlicePM).project
    /\ form = [f \in FieldIds("discovery") |->
                  IF f = "stakeholders" THEN AliceSemiBob ELSE <<>>]

C7_EntityRouting ==
    AtResult =>
        /\ \A i \in SuggestionIdx :
              LET s == derived.suggestions[i]
              IN  /\ s.entity = MetaOfLabel(s.label).entity
                  /\ s.path = MetaOfLabel(s.label).path
                  /\ ~Blank(MetaOfLabel(s.label))
        /\ RoutedTo("project")
        /\ RoutedTo("feature")
        /\ (EndToEndInputs /\ pc = "derived") =>
              /\ derived.suggestions =
                    <<[entity |-> "project", path |-> <<"general", "stakeholders">>,
                       label |-> "Stakeholders", oldValue |-> AlicePM,
                       newValue |-> AliceBob]>>
              /\ derived.featureUpdates = [general |-> EmptyObj]
              /\ derived.projectUpdates = [general |-> ("stakeholders" :> AliceBob)]

\* the end-to-end scenario after the derivation
C7_Witness ==
    /\ pc = "derived"
    /\ EndToEndInputs
    /\ derived.suggestions # <<>>

----------------------------------------------------------------------------
(* C8: after prefillFromProject every form field that held a value before    *)
(* the call holds the same value; only fields that were empty may change.    *)
AfterPrefill == pc \in {"prefilled", "reprefilled"}

C8_PrefillKeepsPopulated ==
    AfterPrefill =>
        \A id \in DOMAIN form :
            trim(formBefore[id]) # <<>> => form[id] = formBefore[id]

----------------------------------------------------------------------------
(* C9: a second prefillFromProject in a row, with no edit and no change of   *)
(* the project and the feature in between, leaves the form as the first one  *)
(* left it.                                                                  *)
C9_PrefillIdempotent ==
    pc = "reprefilled" => form = formBefore

----------------------------------------------------------------------------
(* C10: a mapped field that is empty once the saved phase data has been      *)
(* applied receives, in the pass over the semantic map and its direct        *)
(* mappings, the first non-empty value among the feature's general value at  *)
(* the path of the field, the project's general value at that path, the      *)
(* feature's and the project's saved phase value under the field key, and    *)
(* the saved response; the feature's value wins over the project's.  Runs    *)
(* that end in the label heuristics are left aside.                          *)
RECURSIVE FirstNonEmpty(_)
FirstNonEmpty(candidates) ==
    IF candidates = <<>> THEN <<>>
    ELSE IF Head(candidates) # <<>> THEN Head(candidates)
         ELSE FirstNonEmpty(Tail(candidates))

PriorityCandidates(meta) ==
    LET featurePhase == get(get(detailsOf(feature), "phaseData"), formId)
        projectPhase == get(get(detailsOf(project), "phaseData"), formId)
    IN  << getByPath(detailsOf(feature), meta.path),
           getByPath(detailsOf(project), meta.path),
           get(featurePhase, meta.key),
           get(projectPhase, meta.key),
           Or(get(featurePhase, "llmResponse"), get(projectPhase, "llmResponse")) >>

C10_PrefillSourcePriority ==
    LET steps == prefillSteps(project, feature, formId, Rendered(formId), formBefore)
    IN  (AfterPrefill /\ steps.mapped.applied) =>
            \A meta \in MapEntries :
                (meta.key \in DOMAIN form /\ trim(steps.raw.form[meta.key]) = <<>>) =>
                    LET expected == FirstNonEmpty(PriorityCandidates(meta))
                        field == FieldNamed(Rendered(formId), meta.key)
                    IN  \/ form[meta.key] = setValue(field, expected)
                        \/ /\ meta.isList
                           /\ form[meta.key] = setValue(field, join(normalizeList(expected)))

----------------------------------------------------------------------------
(* C11: in a run of prefillFromProject the fallback (applyGeneralMapping,    *)
(* applyHeuristicMapping) is attempted exactly when no field of the semantic *)
(* map has been given a value by the steps before it: attempted when none of *)
(* the mapped fields changed, not attempted when one of them did.            *)
FilledBeforeFallback ==
    LET steps == prefillSteps(project, feature, formId, Rendered(formId), formBefore)
    IN  {meta \in MapEntries :
            /\ meta.key \in DOMAIN formBefore
            /\ steps.mapped.form[meta.key] # formBefore[meta.key]}

\* the guard of the fallback: if (!applied)
FallbackAttempted ==
    ~prefillSteps(project, feature, formId, Rendered(formId), formBefore).mapped.applied

C11_FallbackIffNothingMapped ==
    AfterPrefill => (FallbackAttempted <=> FilledBeforeFallback = {})

----------------------------------------------------------------------------
(* The discovery form and the label heuristics on its selects *)

\* the options of the role select of a participant row (addParticipantRow)
ParticipantRoles ==
    <<"Product Manager", "Business Analyst", "UX Designer", "UI Designer", "Developer",
      "QA Engineer", "Project Manager", "Stakeholder", "Subject Matter Expert", "End User",
      "Technical Lead", "Scrum Master", "DevOps Engineer", "Data Analyst",
      "Security Specialist", "Other">>

\* the role select of the first participant row; it sits in the form group of
\* the participant table, whose label it shares
ParticipantRole ==
    [Field("participant-role", "Team Members", "select", ParticipantRoles, TRUE)
        EXCEPT !.options = <<[value |-> <<>>, text |-> Chars("Select role...")]>> \o
                           [i \in 1..Len(ParticipantRoles) |->
                               [value |-> Chars(ParticipantRoles[i]),
                                text |-> Chars(ParticipantRoles[i])]]]

\* input, textarea and select elements of the rendered discovery form in
\* document order: the first participant row (name, role), the hidden input
\* of the participant table, and the three other fields of phaseConfigs.discovery
DiscoveryElements ==
    << Field("participant-name", "Team Members", "text", <<>>, TRUE),
       ParticipantRole,
       Field("teamMembers", "Team Members", "hidden", <<>>, TRUE),
       Field("featureSize", "Feature Size (T-shirt)", "select",
             <<"Small", "Medium", "Large", "Extra Large">>, TRUE),
       Field("featureDescription", "Feature Description", "textarea", <<>>, TRUE),
       Field("stakeholders", "Key Stakeholders", "textarea", <<>>, FALSE) >>

\* the object handed to applyHeuristicMapping by prefillFromProject when no
\* phase data has been saved
heuristicData(prj, feat) ==
    SetKey(overlay(get(detailsOf(prj), "general"), get(detailsOf(feat), "general")),
           "llmResponse", <<>>)

\* role texts as a project stores them: one or two comma-separated entries
RoleEntries == {"Developer", "developer", "QA", "QA Engineer", "Senior Product Manager",
                "Manager", "xyz", "role", ""}

RoleTexts ==
    {Chars(e) : e \in RoleEntries}
    \cup {Chars(e1) \o <<",", " ">> \o Chars(e2) : e1, e2 \in RoleEntries}

FeatureTexts == {"Large", "extra", "big"}

InitSelect ==
    /\ hints = <<>>
    /\ RestIdle
    /\ formId = "discovery"
    /\ \E text \in RoleTexts, key \in {"roles", "teamMembers"} :
         project = Entity(key :> text)
    /\ \/ feature = Absent
       \/ \E d \in FeatureTexts : feature = Entity("description" :> Chars(d))
    /\ \E role \in {<<>>, Chars("Other")} :
         form = [id \in ElementIds(DiscoveryElements) |->
                    IF id = "participant-role" THEN role ELSE <<>>]
    /\ derived = NoResult
    /\ formBefore = form
    /\ applied = FALSE
    /\ edits = 0
    /\ pc = "input"

\* applyHeuristicMapping on the rendered discovery form
HeuristicFill ==
    /\ pc = "input"
    /\ formId = "discovery"
    /\ LET result == applyHeuristicMapping(heuristicData(project, feature),
                                           DiscoveryElements, form)
       IN  /\ form' = result.form
           /\ applied' = result.applied
    /\ formBefore' = form
    /\ pc' = "heuristic"
    /\ UNCHANGED <<project, feature, formId, derived, edits, hints>>
    /\ UNCHANGED restVars

NextSelect == HeuristicFill

SpecSelect == InitSelect /\ [][NextSelect]_vars

----------------------------------------------------------------------------
(* C12: applyHeuristicMapping sets an empty select to the first of its       *)
(* options with the highest score over the comma-separated tokens of the     *)
(* candidate text and to nothing else (never the raw text); it leaves the    *)
(* select alone when no option overlaps a token; and when an option equals a *)
(* token, the option chosen is one that equals a token, never one that only  *)
(* overlaps.                                                                 *)
Selects == {i \in 1..Len(DiscoveryElements) : DiscoveryElements[i].type = "select"}

\* the text the labels of the two selects lead to
CandidateText(id) ==
    LET data == heuristicData(project, feature)
    IN  IF id = "participant-role" THEN Or(get(data, "roles"), get(data, "teamMembers"))
        ELSE Or(get(data, "featureDescription"),
                Or(get(data, "description"), get(data, "overview")))

TokensOf(id) ==
    LET toks == roleTokens(CandidateText(id))
    IN  {toks[i] : i \in 1..Len(toks)}

ExactMatch(opt, tokens) ==
    \E t \in tokens : toLowerCase(opt.text) = t \/ toLowerCase(opt.value) = t

Overlaps(opt, tokens) ==
    \E t \in tokens :
        \/ includes(toLowerCase(opt.text), t)
        \/ includes(t, toLowerCase(opt.text))
        \/ includes(toLowerCase(opt.value), t)

BestScore(opt, tokens) ==
    LET scores == {score(opt, t) : t \in tokens} \cup {0}
    IN  CHOOSE sc \in scores : \A other \in scores : other <= sc

FirstBest(options, tokens) ==
    CHOOSE i \in 1..Len(options) :
        /\ \A j \in 1..Len(options) : BestScore(options[j], tokens) <= BestScore(options[i], tokens)
        /\ \A j \in 1..(i-1) : BestScore(options[j], tokens) < BestScore(options[i], tokens)

C12_SelectBestOption ==
    pc = "heuristic" =>
        \A i \in Selects :
            LET el == DiscoveryElements[i]
                tokens == TokensOf(el.name)
                overlapping == {o \in 1..Len(el.options) : Overlaps(el.options[o], tokens)}
                exact == {o \in 1..Len(el.options) : ExactMatch(el.options[o], tokens)}
            IN  formBefore[el.name] = <<>> =>
                    /\ overlapping = {} => form[el.name] = <<>>
                    /\ overlapping # {} =>
                          form[el.name] = el.options[FirstBest(el.options, tokens)].value
                    /\ form[el.name] # <<>> =>
                          \E o \in overlapping : el.options[o].value = form[el.name]
                    /\ exact # {} =>
                          \E o \in exact : el.options[o].value = form[el.name]

----------------------------------------------------------------------------
(* Forms that render semantic hints (field.semantic in a field config) *)

MaxHints == 2          \* most rendered elements carrying a hint

\* ids of the hinted elements: a field of the discovery table, a field of the
\* stories table, a field of no table
HintNames == {"stakeholders", "userRoles", "notes"}

\* what a hint says: entity, path, label, isList
HintShapes ==
    { [entity |-> "feature", path |-> <<"general", "description">>, label |-> "", isList |-> FALSE],
      [entity |-> "project", path |-> <<"general", "notes">>, label |-> "Notes", isList |-> TRUE],
      [entity |-> "project", path |-> <<"general", "goals">>, label |-> "Goals", isList |-> FALSE] }

\* the hinted elements in document order, each id once
HintLists ==
    {<<>>}
    \cup {<<Hint(n, sh.entity, sh.path, sh.label, sh.isList)>> : n \in HintNames, sh \in HintShapes}
    \cup {pair \in {<<Hint(n1, s1.entity, s1.path, s1.label, s1.isList),
                        Hint(n2, s2.entity, s2.path, s2.label, s2.isList)>> :
                          n1 \in HintNames, n2 \in HintNames,
                          s1 \in HintShapes, s2 \in HintShapes} :
              pair[1].name # pair[2].name}

\* ids of the submitted form: the hinted ones, a field of the discovery table
\* without hint, and a field that is in no table and has no hint
HintedFormIds == HintNames \cup {"teamMembers", "extra"}

HintedPhases == {"discovery", "stories", "wireframing"}

HintKeys == {"description", "notes", "goals", "stakeholders", "roles", "teamMembers"}

InitMap ==
    /\ RestIdle
    /\ hints \in {h \in HintLists : Len(h) <= MaxHints}
    /\ formId \in HintedPhases
    /\ \E v \in {<<>>, <<"a">>} : project = Uniform(HintKeys, v)
    /\ \E v \in {<<>>, <<"a">>} : feature = Uniform(HintKeys, v)
    /\ \E filled \in SUBSET HintedFormIds :
         /\ Cardinality(filled) <= MaxFilled
         /\ \E vals \in [filled -> StoredVals] :
              form = [f \in HintedFormIds |-> IF f \in filled THEN vals[f] ELSE <<>>]
    /\ derived = NoResult
    /\ formBefore = form
    /\ applied = FALSE
    /\ edits = 0
    /\ pc = "input"

SpecMap == InitMap /\ [][Next]_vars

----------------------------------------------------------------------------
(* C13: the effective map of a phase is the static table of the phase (none  *)
(* for a phase without one) with the entry of every hinted field replaced by *)
(* or extended with what its hint says; forward mapping routes a field by    *)
(* that entry, and the fields of the form that are in neither the table nor  *)
(* the hints change nothing in its result.                                   *)
StaticTable(phaseKey) ==
    IF phaseKey \in DOMAIN FIELD_SEMANTIC_MAP
    THEN {FIELD_SEMANTIC_MAP[phaseKey][i] : i \in 1..Len(FIELD_SEMANTIC_MAP[phaseKey])}
    ELSE {}

Discovered ==
    {[key |-> hints[i].name, entity |-> hints[i].entity, path |-> hints[i].path,
      label |-> IF hints[i].label # "" THEN hints[i].label ELSE hints[i].name,
      isList |-> hints[i].isList] : i \in 1..Len(hints)}

HintedKeys == {hints[i].name : i \in 1..Len(hints)}

MappedKeys == {m.key : m \in MapEntries}

C13_MapResolution ==
    /\ MapEntries = Discovered \cup {m \in StaticTable(formId) : m.key \notin HintedKeys}
    /\ AtResult =>
          /\ \A i \in SuggestionIdx :
                \E m \in MapEntries :
                    /\ ~Blank(m)
                    /\ derived.suggestions[i].entity = m.entity
                    /\ derived.suggestions[i].path = m.path
                    /\ derived.suggestions[i].label = m.label
          /\ derived = deriveProjectUpdates(project, feature, formId,
                                            [k \in DOMAIN form \cap MappedKeys |-> form[k]])

\* a field of the static table routed by its hint to another entity, next to
\* a filled field that is in neither the table nor the hints
C13_Witness ==
    /\ pc = "derived"
    /\ \E m \in Discovered :
          /\ \E st \in StaticTable(formId) : st.key = m.key /\ st.entity # m.entity
          /\ \E i \in SuggestionIdx :
                /\ derived.suggestions[i].label = m.label
                /\ derived.suggestions[i].entity = m.entity
    /\ \E k \in DOMAIN form : k \notin MappedKeys /\ form[k] # <<>>

----------------------------------------------------------------------------
(* C14: with the project or the feature absent, deriveProjectUpdates yields  *)
(* suggestions and update entries only for the entity that is present: no    *)
(* suggestion names the absent entity and its update tree stays empty.       *)
RecordOf(entity) == IF entity = "feature" THEN feature ELSE project

C14_AbsentEntityYieldsNothing ==
    AtResult =>
        \A entity \in {"project", "feature"} :
            ~RecordOf(entity).present =>
                /\ \A i \in SuggestionIdx : derived.suggestions[i].entity # entity
                /\ UpdatesOf(entity) = [general |-> EmptyObj]

----------------------------------------------------------------------------
(* The Store and the handlers that talk to it.  A handler runs to its end   *)
(* in one step; the outcome of each of its requests (response ok, or a      *)
(* network error or a non-OK response) and the form in which the Store      *)
(* returns `details` are chosen by the environment.                         *)

MaxProjects == 2       \* most projects in the Store
MaxFeatures == 2       \* most features of one project
MaxCalls == 2          \* most handlers run one after the other

\* `details` as a response carries it: a JSON text of the stored tree, the
\* tree itself, a text that is no JSON, or nothing
DetailForms == {"string", "object", "malformed", "null"}

Serve(details, f) ==
    [form  |-> IF f = "malformed" THEN "string" ELSE f,
     valid |-> f \in {"string", "object"},
     value |-> IF f \in {"string", "object"} THEN details ELSE EmptyObj]

normalizeDetails(details) ==
    IF details.form = "null" THEN EmptyObj
    ELSE IF details.form = "string"
         THEN IF details.valid THEN details.value ELSE EmptyObj
         ELSE details.value

\* saved.details ? JSON.parse(saved.details) : {} -- JSON.parse turns an
\* object into the text "[object Object]" and throws on it as on any text
\* that is no JSON
parseSaved(details) ==
    IF details.form = "null" THEN [ok |-> TRUE, value |-> EmptyObj]
    ELSE IF details.form = "string" /\ details.valid
         THEN [ok |-> TRUE, value |-> details.value]
         ELSE [ok |-> FALSE, value |-> EmptyObj]

\* a record of the Store as a response carries it
Sent(rec, f) == [id |-> rec.id, name |-> rec.name, details |-> Serve(rec.details, f)]

\* { ...p, details: normalizeDetails(p.details) }
Normalized(sent) == [id |-> sent.id, name |-> sent.name, details |-> normalizeDetails(sent.details)]

Ids(recs) == {recs[i].id : i \in 1..Len(recs)}

\* cache.find(x => String(x.id) === String(id)); called for an id of the cache
Find(recs, id) == recs[CHOOSE i \in 1..Len(recs) : recs[i].id = id]

\* recs.map(x => x.id === rec.id ? rec : x)
ReplaceById(recs, rec) == [i \in 1..Len(recs) |-> IF recs[i].id = rec.id THEN rec ELSE recs[i]]

\* recs.filter(x => x.id !== id)
RECURSIVE FilterOut(_, _)
FilterOut(recs, id) ==
    IF recs = <<>> THEN <<>>
    ELSE (IF Head(recs).id = id THEN <<>> ELSE <<Head(recs)>>) \o FilterOut(Tail(recs), id)

\* the ids the Store gives out, in this order
ProjectIdOrder == <<"1", "2", "3">>
FeatureIdOrder == <<"f1", "f2", "f3">>

ProjectIds == {ProjectIdOrder[i] : i \in 1..Len(ProjectIdOrder)}

\* the client's local state
Local == [projectCache |-> projectCache, featureCache |-> featureCache,
          activeProjectId |-> activeProjectId, activeFeatureId |-> activeFeatureId,
          sessionToken |-> sessionToken]

\* the part of loadFeaturesForProject after a response that is ok
loadedFeatures(c, srv, projectId, f) ==
    LET existing == [i \in 1..Len(srv.features[projectId]) |->
                        Normalized(Sent(srv.features[projectId][i], f))]
    IN  [c EXCEPT !.featureCache = SetKey(c.featureCache, projectId, existing),
                  !.activeFeatureId = IF c.activeFeatureId = "" /\ existing # <<>>
                                      THEN existing[1].id ELSE c.activeFeatureId]

\* a request as the handlers send it, with the bearer token of the moment
Req(token, method, url, body) ==
    [method |-> method, url |-> url, token |-> token, body |-> body]

\* loadFeaturesForProject: it returns without a session token or a project
\* id; a failed request is logged and changes nothing
loadFeaturesForProject(c, srv, projectId, ok, f) ==
    IF c.sessionToken = "" \/ projectId = "" \/ ~ok THEN c
    ELSE loadedFeatures(c, srv, projectId, f)

\* the request loadFeaturesForProject sends
featuresRequests(c, projectId) ==
    IF c.sessionToken = "" \/ projectId = "" THEN <<>>
    ELSE <<Req(c.sessionToken, "GET", <<"projects", projectId, "features">>, <<>>)>>

\* loadProjects: okProjects and okFeatures are the outcomes of its GET and of
\* the GET of loadFeaturesForProject
loadProjects(c, srv, okProjects, okFeatures, f) ==
    IF c.sessionToken = "" \/ ~okProjects THEN c
    ELSE loadFeaturesForProject(
             [c EXCEPT !.projectCache = [i \in 1..Len(srv.projects) |->
                                            Normalized(Sent(srv.projects[i], f))]],
             srv, c.activeProjectId, okFeatures, f)

\* the requests loadProjects sends
projectsRequests(c, okProjects) ==
    IF c.sessionToken = "" THEN <<>>
    ELSE <<Req(c.sessionToken, "GET", <<"projects">>, <<>>)>> \o
         (IF okProjects THEN featuresRequests(c, c.activeProjectId) ELSE <<>>)

\* the first id the Store has not given out
FreshId(order, used) ==
    order[CHOOSE i \in 1..Len(order) :
             order[i] \notin used /\ \A j \in 1..(i-1) : order[j] \in used]

UsedFeatureIds(srv) == UNION {Ids(srv.features[pid]) : pid \in ProjectIds}

\* the general object saveProject builds from the inputs of the modal
ModalGeneral(name, overview) ==
    [k \in ProjectModalKeys |-> IF k = "name" THEN name
                                ELSE IF k = "overview" THEN overview ELSE <<>>]

\* pendingSuggestions and pendingUpdatePayload as they are, and as
\* dismissSuggestions and a successful applySuggestions leave them
Pending == [suggestions |-> pendingSuggestions, payload |-> pendingUpdatePayload]
\* a clearing of the list that would keep the payload
ClearedListOnly == [suggestions |-> <<>>, payload |-> pendingUpdatePayload]
Cleared == [suggestions |-> <<>>, payload |-> Null]

\* what a handler leaves: the local state, the Store, the notification, the
\* pending suggestions, whether a request of its own failed, the form of
\* `details` in the responses it has read ("" when it has read none), and
\* the requests it has sent
After(c, srv, t, pending, op, failed, f, reqs) ==
    /\ projectCache' = c.projectCache
    /\ featureCache' = c.featureCache
    /\ activeProjectId' = c.activeProjectId
    /\ activeFeatureId' = c.activeFeatureId
    /\ sessionToken' = c.sessionToken
    /\ store' = srv
    /\ toast' = t
    /\ pendingSuggestions' = pending.suggestions
    /\ pendingUpdatePayload' = pending.payload
    /\ requests' = reqs
    /\ call' = [op |-> op, failed |-> failed, n |-> call.n + 1, before |-> Local, form |-> f]
    /\ UNCHANGED <<project, feature, formId, form, derived, formBefore, applied, edits, pc,
                   hints>>
    /\ UNCHANGED <<transcribeVars, workflowVars, currentUser, screen, checked, inflight,
                   derivedFor, flights>>

saveProject ==
    /\ call.n < MaxCalls
    /\ \E name \in {<<>>, <<" ">>, <<"q">>}, ok \in BOOLEAN, okProjects \in BOOLEAN,
          okFeatures \in BOOLEAN, f \in DetailForms :
         LET trimmed == trim(name)
             details == [general |-> ModalGeneral(trimmed, <<>>)]
             creating == activeProjectId = ""
             sent == ok /\ (IF creating THEN Len(store.projects) < MaxProjects
                            ELSE activeProjectId \in Ids(store.projects))
             srv == IF creating
                    THEN [store EXCEPT !.projects =
                            Append(@, [id |-> FreshId(ProjectIdOrder, Ids(store.projects)),
                                       name |-> trimmed, details |-> details])]
                    ELSE [store EXCEPT !.projects =
                            ReplaceById(@, [id |-> activeProjectId, name |-> trimmed,
                                            details |-> details])]
             put == IF creating
                    THEN Req(sessionToken, "POST", <<"projects">>, [name |-> trimmed, details |-> details])
                    ELSE Req(sessionToken, "PUT", <<"projects", activeProjectId>>,
                             [name |-> trimmed, details |-> details])
         IN  IF sessionToken = "" \/ trimmed = <<>>
             THEN After(Local, store, "error", Pending, "saveProject", FALSE, "", <<>>)
             ELSE IF ~sent
             THEN After(Local, store, "error", Pending, "saveProject", TRUE, "", <<put>>)
             ELSE After(loadProjects(Local, srv, okProjects, okFeatures, f), srv,
                        "success", Pending, "saveProject", FALSE,
                        IF okProjects THEN f ELSE "",
                        <<put>> \o projectsRequests(Local, okProjects))

deleteProject ==
    /\ call.n < MaxCalls
    /\ \E ok \in BOOLEAN, okProjects \in BOOLEAN, f \in DetailForms :
         LET sent == ok /\ sessionToken # "" /\ activeProjectId \in Ids(store.projects)
             srv == [projects |-> FilterOut(store.projects, activeProjectId),
                     features |-> [pid \in ProjectIds |->
                                     IF pid = activeProjectId THEN <<>>
                                     ELSE store.features[pid]]]
             delete == Req(sessionToken, "DELETE", <<"projects", activeProjectId>>, <<>>)
         IN  IF activeProjectId = ""
             THEN After(Local, store, "error", Pending, "deleteProject", FALSE, "", <<>>)
             ELSE IF ~sent
             THEN After(Local, store, "error", Pending, "deleteProject", TRUE, "", <<delete>>)
             ELSE After(loadProjects([Local EXCEPT !.activeProjectId = ""], srv,
                                     okProjects, FALSE, f),
                        srv, "success", Pending, "deleteProject", FALSE,
                        IF okProjects THEN f ELSE "",
                        <<delete>> \o
                        projectsRequests([Local EXCEPT !.activeProjectId = ""], okProjects))

saveFeature ==
    /\ call.n < MaxCalls
    /\ \E name \in {<<>>, <<"g">>}, ok \in BOOLEAN, okFeatures \in BOOLEAN, f \in DetailForms :
         LET details == [general |-> [description |-> <<>>, tShirtSize |-> <<>>, name |-> name]]
             creating == activeFeatureId = ""
             known == activeProjectId \in Ids(store.projects)
             sent == ok /\ known
                        /\ (IF creating THEN Len(store.features[activeProjectId]) < MaxFeatures
                            ELSE activeFeatureId \in Ids(store.features[activeProjectId]))
             saved == [id |-> IF creating THEN FreshId(FeatureIdOrder, UsedFeatureIds(store))
                              ELSE activeFeatureId,
                       name |-> name, details |-> details]
             srv == [store EXCEPT !.features[activeProjectId] =
                        IF creating THEN Append(@, saved) ELSE ReplaceById(@, saved)]
             normalized == Normalized(Sent(saved, f))
             list == get(featureCache, activeProjectId)
             cached == [Local EXCEPT
                          !.featureCache = SetKey(featureCache, activeProjectId,
                                                  <<normalized>> \o FilterOut(list, normalized.id)),
                          !.activeFeatureId = normalized.id]
             put == IF creating
                    THEN Req(sessionToken, "POST", <<"projects", activeProjectId, "features">>,
                             [name |-> name, details |-> details])
                    ELSE Req(sessionToken, "PUT", <<"projects", activeProjectId, "features", activeFeatureId>>,
                             [name |-> name, details |-> details])
         IN  IF activeProjectId = "" \/ sessionToken = "" \/ name = <<>>
             THEN After(Local, store, "error", Pending, "saveFeature", FALSE, "", <<>>)
             ELSE IF ~sent
             THEN After(Local, store, "error", Pending, "saveFeature", TRUE, "", <<put>>)
             ELSE After(loadFeaturesForProject(cached, srv, activeProjectId, okFeatures, f),
                        srv, "success", Pending, "saveFeature", FALSE, f,
                        <<put>> \o featuresRequests(cached, activeProjectId))

deleteFeatureEntry ==
    /\ call.n < MaxCalls
    /\ \E ok \in BOOLEAN, f \in DetailForms :
         LET sent == /\ ok
                     /\ sessionToken # ""
                     /\ activeProjectId \in Ids(store.projects)
                     /\ activeFeatureId \in Ids(store.features[activeProjectId])
             srv == [store EXCEPT !.features[activeProjectId] = FilterOut(@, activeFeatureId)]
             left == [Local EXCEPT
                        !.featureCache = SetKey(featureCache, activeProjectId,
                                                FilterOut(get(featureCache, activeProjectId),
                                                          activeFeatureId)),
                        !.activeFeatureId = ""]
             delete == Req(sessionToken, "DELETE",
                           <<"projects", activeProjectId, "features", activeFeatureId>>, <<>>)
         IN  IF activeProjectId = "" \/ activeFeatureId = ""
             THEN After(Local, store, "error", Pending, "deleteFeatureEntry", FALSE, "", <<>>)
             ELSE IF ~sent
             THEN After(Local, store, "error", Pending, "deleteFeatureEntry", TRUE, "",
                        <<delete>>)
             ELSE After(left, srv, "success", Pending, "deleteFeatureEntry", FALSE, "",
                        <<delete>>)

\* projDetails.phaseData = projDetails.phaseData || {} takes the phaseData
\* object of the cached record itself when there is one, so the assignment
\* projDetails.phaseData[phaseKey] = formValues writes into the cache
aliased(rec, phaseKey, formValues) ==
    IF "phaseData" \in DOMAIN rec.details /\ phaseKey # ""
    THEN [rec EXCEPT !.details.phaseData = SetKey(@, phaseKey, formValues)]
    ELSE rec

applySuggestions ==
    /\ call.n < MaxCalls
    /\ pendingSuggestions # <<>>
    /\ \E okProject \in BOOLEAN, okFeature \in BOOLEAN, f \in DetailForms :
         IF sessionToken = ""
         THEN After(Local, store, "error", Pending, "applySuggestions", FALSE, "", <<>>)
         ELSE IF activeProjectId = ""
         THEN After(Local, store, "error", Cleared, "applySuggestions", FALSE, "", <<>>)
         ELSE IF activeProjectId \notin Ids(projectCache)
         THEN After(Local, store, toast, Cleared, "applySuggestions", FALSE, "", <<>>)
         ELSE
         LET proj == Find(projectCache, activeProjectId)
             featureList == get(featureCache, activeProjectId)
             hasFeat == activeFeatureId \in Ids(featureList)
             updates == IF pendingUpdatePayload = Null THEN EmptyObj ELSE pendingUpdatePayload
             projUpdates == get(updates, "projectUpdates")
             featureUpdates == get(updates, "featureUpdates")
             projDetails == mergeDetails(proj.details, projUpdates, formId, form)
             \* the local state when the project PUT is sent
             c1 == [Local EXCEPT !.projectCache =
                       ReplaceById(projectCache, aliased(proj, formId, form))]
             putProject == Req(sessionToken, "PUT", <<"projects", activeProjectId>>,
                               [name |-> proj.name, details |-> projDetails])
             sentProject == okProject /\ activeProjectId \in Ids(store.projects)
             srv1 == [store EXCEPT !.projects =
                        ReplaceById(@, [id |-> activeProjectId, name |-> proj.name,
                                        details |-> projDetails])]
             parsed == parseSaved(Serve(projDetails, f))
             c2 == [c1 EXCEPT !.projectCache =
                       ReplaceById(c1.projectCache,
                                   [id |-> activeProjectId, name |-> proj.name,
                                    details |-> parsed.value])]
             updating == hasFeat /\ DOMAIN get(featureUpdates, "general") # {}
         IN  IF ~sentProject
             THEN After(c1, store, "error", Pending, "applySuggestions", TRUE, "",
                        <<putProject>>)
             ELSE IF ~parsed.ok
             THEN After(c1, srv1, "error", Pending, "applySuggestions", FALSE, f,
                        <<putProject>>)
             ELSE IF ~updating
             THEN After(c2, srv1, "success", Cleared, "applySuggestions", FALSE, f,
                        <<putProject>>)
             ELSE
             LET feat == Find(featureList, activeFeatureId)
                 fDetails == mergeDetails(feat.details, featureUpdates, formId, form)
                 c3 == [c2 EXCEPT !.featureCache =
                           SetKey(c2.featureCache, activeProjectId,
                                  ReplaceById(featureList, aliased(feat, formId, form)))]
                 putFeature == Req(sessionToken, "PUT", <<"projects", activeProjectId, "features",
                                            activeFeatureId>>,
                                   [name |-> feat.name, details |-> fDetails])
                 sentFeature == okFeature
                                  /\ activeFeatureId \in Ids(store.features[activeProjectId])
                 srv2 == [srv1 EXCEPT !.features[activeProjectId] =
                            ReplaceById(@, [id |-> activeFeatureId, name |-> feat.name,
                                            details |-> fDetails])]
                 c4 == [c3 EXCEPT !.featureCache =
                           SetKey(c3.featureCache, activeProjectId,
                                  ReplaceById(featureList,
                                              [id |-> activeFeatureId, name |-> feat.name,
                                               details |-> parseSaved(Serve(fDetails, f)).value]))]
             IN  IF ~sentFeature
                 THEN After(c3, srv1, "error", Pending, "applySuggestions", TRUE, f,
                            <<putProject, putFeature>>)
                 ELSE After(c4, srv2, "success", Cleared, "applySuggestions", FALSE, f,
                            <<putProject, putFeature>>)

NextStore ==
    saveProject \/ deleteProject \/ saveFeature \/ deleteFeatureEntry \/ applySuggestions

\* a stories submission saved by an earlier applySuggestions
SavedForm == [k \in ElementIds(StoriesFields) |-> IF k = "userRoles" THEN <<"a">> ELSE <<>>]

\* details of a stored record: as the manager wrote them, or as an earlier
\* applySuggestions wrote them
StoredDetails(general) ==
    {[general |-> general],
     [general |-> general, phaseData |-> [stories |-> SavedForm]]}

\* the submissions of the stories form that the pending suggestions come from
StoreForms ==
    {[k \in ElementIds(StoriesFields) |-> IF k \in filled THEN <<"b">> ELSE <<>>] :
        filled \in {{"epicName"}, {"userRoles"}, {"epicName", "userRoles"}}}

\* a cached record as the mapper takes it
ToRecord(recs, id) ==
    IF id \in Ids(recs) THEN [present |-> TRUE, details |-> Find(recs, id).details]
    ELSE Absent

\* what the payload is derived against
Against ==
    [projectId |-> activeProjectId, featureId |-> activeFeatureId,
     project |-> ToRecord(projectCache, activeProjectId),
     feature |-> ToRecord(get(featureCache, activeProjectId), activeFeatureId)]

\* logged in, projects loaded, a project selected or not, its features
\* loaded, and the suggestions of a submission pending
InitStore ==
    /\ hints = <<>>
    /\ sessionToken = "t1"
    /\ currentUser = "u1"
    /\ TranscribeIdle
    /\ WorkflowIdle
    /\ \E d1 \in StoredDetails(ModalGeneral(<<"p">>, <<>>)), two \in BOOLEAN,
          features \in {<<>>} \cup
                       {<<[id |-> "f1", name |-> <<"f">>, details |-> d]>> :
                          d \in StoredDetails([description |-> <<>>, tShirtSize |-> <<>>,
                                               name |-> <<"f">>])} :
         /\ store = [projects |->
                        <<[id |-> "1", name |-> <<"p">>, details |-> d1]>> \o
                        (IF two THEN <<[id |-> "2", name |-> <<"r">>,
                                        details |-> [general |-> ModalGeneral(<<"r">>, <<>>)]]>>
                         ELSE <<>>),
                     features |-> [pid \in ProjectIds |-> IF pid = "1" THEN features ELSE <<>>]]
         /\ \E selected \in {"", "1"} :
              LET loaded == loadProjects([projectCache |-> <<>>, featureCache |-> <<>>,
                                          activeProjectId |-> selected, activeFeatureId |-> "",
                                          sessionToken |-> sessionToken],
                                         store, TRUE, TRUE, "string")
              IN  /\ projectCache = loaded.projectCache
                  /\ featureCache = loaded.featureCache
                  /\ activeProjectId = loaded.activeProjectId
                  /\ activeFeatureId = loaded.activeFeatureId
    /\ toast = ""
    /\ call = NoCall
    /\ formId = "stories"
    /\ form \in StoreForms
    /\ project = Absent
    /\ feature = Absent
    /\ derived = NoResult
    /\ LET out == deriveProjectUpdates(ToRecord(projectCache, activeProjectId),
                                       ToRecord(get(featureCache, activeProjectId),
                                                activeFeatureId),
                                       formId, form)
       IN  /\ pendingSuggestions = out.suggestions
           /\ pendingUpdatePayload = [projectUpdates |-> out.projectUpdates,
                                      featureUpdates |-> out.featureUpdates]
    /\ requests = <<>>
    /\ screen = "prompt-screen"
    /\ checked = {}
    /\ inflight = <<>>
    /\ derivedFor = Against
    /\ flights = <<>>
    /\ formBefore = form
    /\ applied = FALSE
    /\ edits = 0
    /\ pc = "input"

SpecStore == InitStore /\ [][NextStore]_vars

----------------------------------------------------------------------------
(* C15: when a request of saveProject, saveFeature, deleteProject,           *)
(* deleteFeatureEntry or applySuggestions has failed, projectCache,          *)
(* featureCache, activeProjectId and activeFeatureId are what they were      *)
(* before the handler ran, and the notification shown is an error.           *)
C15_FailedRequestLeavesLocalState ==
    call.failed => (Local = call.before /\ toast = "error")

----------------------------------------------------------------------------
(* C17: normalizeDetails gives the stored tree for a JSON text of it and     *)
(* for the tree itself, and an empty object for a text that is no JSON and   *)
(* for nothing; and a handler that has read `details` from responses of the  *)
(* Store, none of its requests having failed, ends without an error and has  *)
(* cached what normalizeDetails gives for them, whatever their form.         *)
Tolerated(rec) == normalizeDetails(Serve(rec.details, call.form))

C17_DetailsTolerated ==
    /\ \A i \in 1..Len(store.projects), f \in DetailForms :
          normalizeDetails(Serve(store.projects[i].details, f)) =
             IF f \in {"string", "object"} THEN store.projects[i].details ELSE EmptyObj
    /\ (call.form # "" /\ ~call.failed) =>
          /\ toast = "success"
          /\ CASE call.op \in {"saveProject", "deleteProject"} ->
                    projectCache = [i \in 1..Len(store.projects) |->
                                       [id |-> store.projects[i].id,
                                        name |-> store.projects[i].name,
                                        details |-> Tolerated(store.projects[i])]]
               [] call.op = "saveFeature" ->
                    /\ activeFeatureId \in Ids(get(featureCache, activeProjectId))
                    /\ Find(get(featureCache, activeProjectId), activeFeatureId).details =
                          Tolerated(Find(store.features[activeProjectId], activeFeatureId))
               [] call.op = "applySuggestions" ->
                    Find(projectCache, activeProjectId).details =
                       Tolerated(Find(store.projects, activeProjectId))
               [] OTHER -> TRUE

----------------------------------------------------------------------------
(* Video transcription: transcribeVideo and transcribeAudio.                 *)
(* Time is counted in ticks of ten minutes from the moment transcribeAudio   *)
(* arms its timer; an error is its name and its message.                     *)

TimeoutTicks == 3       \* setTimeout(..., 1800000)
MaxClock == 5           \* the clock stops here
MaxRuns == 3            \* calls of transcribeVideo explored

Error(name, message) == [name |-> name, message |-> message]

\* the rejection of a fetch whose signal was aborted (the wording is the browser's)
AbortErrors ==
    {Error("AbortError", Chars(m)) : m \in {"signal is aborted without reason",
                                          "The user aborted a request.",
                                          "The operation was aborted."}}

\* the rejection of a fetch that could not reach the server
NetworkErrors ==
    {Error("TypeError", Chars(m)) : m \in {"Failed to fetch",
                                         "NetworkError when attempting to fetch resource."}}

\* the bodies the transcription server may send: nothing, text that is not
\* JSON, or an object with some of success, error, message, transcription
JsonResults ==
    [success : {"true", "false", "absent"}, error : {"", "boom"},
     message : {"", "busy"}, transcription : {"", "hello"}]

Responses ==
    {[ok |-> ok, text |-> "json", result |-> r] : ok \in BOOLEAN, r \in JsonResults}
    \cup {[ok |-> ok, text |-> t, result |-> <<>>] : ok \in BOOLEAN, t \in {"empty", "junk"}}

Returned(v) == [threw |-> FALSE, value |-> v, error |-> Error("", <<>>)]
Thrown(e) == [threw |-> TRUE, value |-> "", error |-> e]

\* the catch of transcribeAudio: whatever was thrown becomes a new Error
rethrow(error) == Thrown(Error("Error", Chars("Transcription failed: ") \o error.message))

\* transcribeAudio once fetch has rejected with `error`
transcribeAudioRejected(error) == rethrow(error)

\* transcribeAudio once the body of `resp` has been read
transcribeAudioRead(resp) ==
    LET result == IF resp.text = "json" THEN resp.result ELSE <<>>
        has == resp.text = "json"
    IN  IF ~resp.ok
        THEN rethrow(Error("Error",
                 Chars(IF has /\ result.error # "" THEN result.error
                       ELSE IF has /\ result.message # "" THEN result.message
                       ELSE "HTTP 500: Internal Server Error")))
        ELSE IF ~has
        THEN rethrow(Error("Error", Chars("Unexpected empty response from transcription service.")))
        ELSE IF result.success = "false"
        THEN rethrow(Error("Error", Chars(IF result.error # "" THEN result.error
                                           ELSE "Transcription failed")))
        ELSE Returned(result.transcription)

\* the message transcribeVideo shows for a caught error
errorMessage(error) ==
    IF error.name = "AbortError" THEN "timedout"
    ELSE IF includes(error.message, Chars("Failed to fetch")) THEN "connect"
    ELSE "other"

VideoFiles == {"none", "large", "unsupported", "video"}
HealthChecks == {"ok", "notok", "unreachable"}

\* what the mapper, the form screen, the Store handlers and the workflow own
otherVars == <<project, feature, formId, form, derived, formBefore, applied, edits, pc, hints,
               projectCache, featureCache, activeProjectId, activeFeatureId, store, call,
               workflowVars, appVars>>

\* transcribeVideo from the call to the request of transcribeAudio being sent
transcribeVideo ==
    /\ runs < MaxRuns
    /\ runs' = runs + 1
    /\ \E videoFile \in VideoFiles, health \in HealthChecks, elements \in BOOLEAN :
          IF videoFile = "none"
          THEN /\ toast' = "error"
               /\ UNCHANGED <<transcriptionInProgress, tstep, elapsed, response,
                              transcriptionStatus, transcriptionText, ended>>
          ELSE IF transcriptionInProgress
          THEN /\ toast' = "info"
               /\ UNCHANGED <<transcriptionInProgress, tstep, elapsed, response,
                              transcriptionStatus, transcriptionText, ended>>
          ELSE IF videoFile # "video" \/ health # "ok"
          THEN /\ toast' = "error"
               /\ UNCHANGED <<transcriptionInProgress, tstep, elapsed, response,
                              transcriptionStatus, transcriptionText, ended>>
          ELSE IF ~elements
          THEN UNCHANGED <<toast, transcriptionInProgress, tstep, elapsed, response,
                           transcriptionStatus, transcriptionText, ended>>
          ELSE /\ transcriptionInProgress' = TRUE
               /\ transcriptionStatus' = "progress"
               /\ tstep' = "fetch"
               /\ elapsed' = 0
               /\ ended' = ""
               /\ UNCHANGED <<toast, response, transcriptionText>>
    /\ UNCHANGED otherVars

\* the catch and the finally of transcribeVideo, or its success path
finish(outcome, how) ==
    /\ ended' = how
    /\ tstep' = "idle"
    /\ response' = NoResponse
    /\ transcriptionInProgress' = FALSE
    /\ IF outcome.threw
       THEN /\ transcriptionStatus' = errorMessage(outcome.error)
            /\ toast' = "error"
            /\ UNCHANGED transcriptionText
       ELSE /\ transcriptionStatus' = "success"
            /\ toast' = "success"
            /\ transcriptionText' = outcome.value
    /\ UNCHANGED <<elapsed, runs>>
    /\ UNCHANGED otherVars

\* time passes while the request, or the reading of the body, is pending
Tick ==
    /\ \/ tstep = "fetch" /\ elapsed < TimeoutTicks
       \/ tstep = "text" /\ elapsed < MaxClock
    /\ elapsed' = elapsed + 1
    /\ UNCHANGED <<toast, transcriptionInProgress, tstep, response, transcriptionStatus,
                   transcriptionText, ended, runs>>
    /\ UNCHANGED otherVars

\* the timer fires: controller.abort() rejects the pending fetch
TimerFires ==
    /\ tstep = "fetch"
    /\ elapsed = TimeoutTicks
    /\ \E e \in AbortErrors : finish(transcribeAudioRejected(e), "aborted")

\* the request fails before any response
FetchFails ==
    /\ tstep = "fetch"
    /\ \E e \in NetworkErrors : finish(transcribeAudioRejected(e), "network")

\* the response arrives: clearTimeout, then the body is awaited
ResponseArrives ==
    /\ tstep = "fetch"
    /\ \E resp \in Responses : response' = resp
    /\ tstep' = "text"
    /\ UNCHANGED <<toast, transcriptionInProgress, elapsed, transcriptionStatus,
                   transcriptionText, ended, runs>>
    /\ UNCHANGED otherVars

\* the body has been read
BodyRead ==
    /\ tstep = "text"
    /\ LET outcome == transcribeAudioRead(response)
       IN  finish(outcome, IF outcome.threw THEN "refused" ELSE "done")

\* the connection breaks while the body is read
BodyFails ==
    /\ tstep = "text"
    /\ \E e \in NetworkErrors : finish(transcribeAudioRejected(e), "network")

NextTranscribe ==
    \/ transcribeVideo
    \/ Tick
    \/ TimerFires
    \/ FetchFails
    \/ ResponseArrives
    \/ BodyRead
    \/ BodyFails

InitTranscribe ==
    /\ hints = <<>>
    /\ RestIdle
    /\ project = Absent
    /\ feature = Absent
    /\ formId = "discovery"
    /\ form = [id \in {} |-> <<>>]
    /\ derived = NoResult
    /\ formBefore = form
    /\ applied = FALSE
    /\ edits = 0
    /\ pc = "input"

SpecTranscribe == InitTranscribe /\ [][NextTranscribe]_vars

----------------------------------------------------------------------------
(* C16: a pending transcription request never outlives the thirty minutes,   *)
(* and once a transcription has ended, the status shows the timed-out        *)
(* message exactly when the request was ended by the timer.                  *)
C16_TimeoutDistinguished ==
    /\ tstep \in {"fetch", "text"} => elapsed <= TimeoutTicks
    /\ (tstep = "idle" /\ ended # "") =>
          (transcriptionStatus = "timedout" <=> ended = "aborted")

----------------------------------------------------------------------------
(* deriveProjectUpdates over values of any type.  In this part a value      *)
(* carries its type: a string, a number, an array of strings, or undefined. *)

MaxSubmissions == 2     \* most submissions saved by savePhaseSubmission

StrV(s) == [typeof |-> "string", str |-> s]
NumV(n) == [typeof |-> "number", num |-> n]
ArrV(items) == [typeof |-> "object", items |-> items]
Undefined == [typeof |-> "undefined"]

\* the truthiness of a value
truthy(v) ==
    CASE v.typeof = "string" -> v.str # <<>>
      [] v.typeof = "number" -> v.num # 0
      [] v.typeof = "object" -> TRUE
      [] OTHER -> FALSE

\* Array.prototype.join(",")
RECURSIVE joinComma(_)
joinComma(items) ==
    IF items = <<>> THEN <<>>
    ELSE IF Len(items) = 1 THEN items[1]
    ELSE items[1] \o <<",">> \o joinComma(Tail(items))

\* value.toString()
toStringV(v) ==
    CASE v.typeof = "string" -> v.str
      [] v.typeof = "number" -> Chars(ToString(v.num))
      [] v.typeof = "object" -> joinComma(v.items)

\* getByPath: undefined at the first missing key
RECURSIVE getByPathV(_, _)
getByPathV(obj, path) ==
    IF path = <<>> THEN obj
    ELSE IF Head(path) \in DOMAIN obj
         THEN getByPathV(obj[Head(path)], Tail(path))
         ELSE Undefined

Threw(acc) == [threw |-> TRUE, result |-> acc.result]

\* the body of the forEach over the map entries; normalizeList calls
\* (val || "").split, which only a string has
deriveFieldV(acc, meta, prj, feat, formValues) ==
    IF acc.threw \/ meta.key \notin DOMAIN formValues THEN acc
    ELSE
    LET value == formValues[meta.key]
        trimmed == IF value.typeof = "string" THEN StrV(trim(value.str)) ELSE value
        entityDetails == IF meta.entity = "feature" THEN detailsOf(feat)
                         ELSE detailsOf(prj)
        currentVal == getByPathV(entityDetails, meta.path)
        current == IF truthy(currentVal) THEN currentVal ELSE StrV(<<>>)
    IN  IF ~truthy(trimmed) THEN acc
        ELSE IF meta.isList
        THEN IF trimmed.typeof # "string" THEN Threw(acc)
             ELSE IF normalizeList(trimmed.str) = <<>> THEN acc
             ELSE IF current.typeof # "string" THEN Threw(acc)
             ELSE LET incomingItems == normalizeList(trimmed.str)
                      currentList == normalizeList(current.str)
                      newItems == filterNew(incomingItems, currentList)
                  IN  IF newItems = <<>> THEN acc
                      ELSE [threw |-> FALSE,
                            result |-> emit(acc.result, meta, current,
                                            StrV(mergeList(current.str, newItems)))]
        ELSE LET currentString == trim(toStringV(current))
             IN  IF currentString = <<>>
                    \/ ~(trimmed.typeof = "string" /\ trimmed.str = currentString)
                 THEN [threw |-> FALSE, result |-> emit(acc.result, meta, current, trimmed)]
                 ELSE acc

RECURSIVE deriveLoopV(_, _, _, _, _)
deriveLoopV(acc, map, prj, feat, formValues) ==
    IF map = <<>> THEN acc
    ELSE deriveLoopV(deriveFieldV(acc, Head(map), prj, feat, formValues),
                     Tail(map), prj, feat, formValues)

\* deriveProjectUpdates: its result, or threw when it ends in a TypeError
deriveProjectUpdatesV(prj, feat, phaseKey, formValues) ==
    deriveLoopV([threw |-> FALSE, result |-> NoResult],
                buildSemanticMap(phaseKey), prj, feat, formValues)

\* runGeneratePrompt from the reading of the form on, the required fields
\* having been found filled: the suggestions are derived and set pending,
\* and savePhaseSubmission posts the submission (its failure is only logged)
generate ==
    /\ pc \in {"input", "persisted"}
    /\ Len(store.submissions) < MaxSubmissions
    /\ LET proj == ToRecord(projectCache, activeProjectId)
           feat == ToRecord(get(featureCache, activeProjectId), activeFeatureId)
           out == deriveProjectUpdatesV(proj, feat, formId, form)
       IN  IF out.threw
           THEN /\ pc' = "threw"
                /\ UNCHANGED <<derived, store>>
           ELSE /\ pc' = "derived"
                /\ derived' = out.result
                /\ \E ok \in BOOLEAN :
                      store' = IF ok
                               THEN [store EXCEPT !.submissions =
                                        Append(@, [phase |-> formId, payload |-> form,
                                                   projectId |-> activeProjectId,
                                                   featureId |-> activeFeatureId])]
                               ELSE store
    /\ UNCHANGED <<project, feature, formId, form, formBefore, applied, edits, hints>>
    /\ UNCHANGED <<projectCache, featureCache, activeProjectId, activeFeatureId, toast, call>>
    /\ UNCHANGED <<transcribeVars, workflowVars, appVars>>

\* applySuggestions, its requests succeeding and the Store answering with
\* details as a JSON text
confirm ==
    /\ pc = "derived"
    /\ derived.suggestions # <<>>
    /\ activeProjectId \in Ids(projectCache)
    /\ LET proj == Find(projectCache, activeProjectId)
           featureList == get(featureCache, activeProjectId)
           saved == [proj EXCEPT !.details =
                        mergeDetails(proj.details, derived.projectUpdates, formId, form)]
           updating == activeFeatureId \in Ids(featureList)
                         /\ DOMAIN derived.featureUpdates.general # {}
           fSaved == IF updating
                     THEN [Find(featureList, activeFeatureId) EXCEPT !.details =
                              mergeDetails(@, derived.featureUpdates, formId, form)]
                     ELSE <<>>
           features == IF updating
                       THEN SetKey(featureCache, activeProjectId,
                                   ReplaceById(featureList, fSaved))
                       ELSE featureCache
       IN  /\ projectCache' = ReplaceById(projectCache, saved)
           /\ featureCache' = features
           /\ store' = [store EXCEPT !.projects = ReplaceById(@, saved),
                                     !.features = IF updating
                                                  THEN ReplaceById(@, fSaved) ELSE @]
           /\ project' = ToRecord(projectCache', activeProjectId)
           /\ feature' = ToRecord(get(featureCache', activeProjectId), activeFeatureId)
    /\ derived' = NoResult
    /\ toast' = "success"
    /\ pc' = "persisted"
    /\ UNCHANGED <<formId, form, formBefore, applied, edits, hints>>
    /\ UNCHANGED <<activeProjectId, activeFeatureId, call>>
    /\ UNCHANGED <<transcribeVars, workflowVars, appVars>>

NextDerive == generate \/ confirm

\* values as the Store may hold them and as a caller may pass them
AnyValues ==
    {Undefined, StrV(<<>>), StrV(Chars("Dev")), StrV(Chars("QA; dev")), NumV(5),
     ArrV(<<Chars("Dev")>>)}

InitDerive ==
    /\ hints = <<>>
    /\ TranscribeIdle
    /\ WorkflowIdle
    /\ AppIdle
    /\ formId \in {"stories", "retro"}
    /\ \E roles \in AnyValues, name \in AnyValues :
          /\ projectCache \in {<<>>,
                               <<[id |-> "1", name |-> <<"p">>, details |-> EmptyObj]>>,
                               <<[id |-> "1", name |-> <<"p">>,
                                  details |-> [general |-> [roles |-> roles]]]>>}
          /\ featureCache \in {<<>>,
                               [pid \in {"1"} |->
                                   <<[id |-> "f1", name |-> <<"f">>,
                                      details |-> [general |-> [name |-> name]]]>>]}
    /\ activeProjectId = IF projectCache = <<>> THEN "" ELSE "1"
    /\ activeFeatureId = IF featureCache = <<>> \/ activeProjectId = "" THEN "" ELSE "f1"
    /\ store = [projects |-> projectCache,
                features |-> IF activeProjectId = "" THEN <<>>
                             ELSE get(featureCache, activeProjectId),
                submissions |-> <<>>]
    /\ project = ToRecord(projectCache, activeProjectId)
    /\ feature = ToRecord(get(featureCache, activeProjectId), activeFeatureId)
    /\ form \in [{"epicName", "userRoles"} -> AnyValues]
    /\ toast = ""
    /\ call = NoCall
    /\ derived = NoResult
    /\ formBefore = form
    /\ applied = FALSE
    /\ edits = 0
    /\ pc = "input"

SpecDerive == InitDerive /\ [][NextDerive]_vars

----------------------------------------------------------------------------
(* C18: deriveProjectUpdates returns a result for every project, feature,    *)
(* phase and form values, and the generation of a prompt leaves the project  *)
(* and the feature record, the caches, the form values and the projects and  *)
(* features of the Store as they were; these change on confirmation only.    *)
C18_PureTotalForward ==
    [][(pc = "input" \/ pc = "persisted") =>
          (/\ pc' # "threw"
           /\ UNCHANGED <<project, feature, projectCache, featureCache, form>>
           /\ store'.projects = store.projects
           /\ store'.features = store.features)]_vars

----------------------------------------------------------------------------
(* List values: the form screen over stored and typed lists written with    *)
(* commas, semicolons, line breaks and blanks.                              *)

\* lists as typed into the project modal's inputs
StoredLists ==
    {Chars("a"), Chars("a, b"), Chars("a;b"), Chars("a,b"), Chars(" a ,b;")}

\* lists as typed into a textarea of the form
TypedLists == StoredLists \cup {<<"c", "\n", "A">>, Chars("c ;d")}

ListFieldIds(phaseKey) ==
    {FIELD_SEMANTIC_MAP[phaseKey][i].key :
        i \in {j \in 1..Len(FIELD_SEMANTIC_MAP[phaseKey]) :
                  FIELD_SEMANTIC_MAP[phaseKey][j].isList}}

\* a project saved from the modal with its roles and perhaps its team, no
\* feature, and a form whose list field is empty or typed, the other fields
\* all empty or all filled
InitLists ==
    /\ hints = <<>>
    /\ RestIdle
    /\ formId \in {"stories", "requirements"}
    /\ \E roles \in StoredLists, teamMembers \in StoredLists \cup {<<>>} :
          project = Entity([k \in ProjectModalKeys |->
                               IF k = "roles" THEN roles
                               ELSE IF k = "teamMembers" THEN teamMembers
                               ELSE IF k = "name" THEN <<"p">> ELSE <<>>])
    /\ feature = Absent
    /\ \E typed \in TypedLists \cup {<<>>}, filled \in BOOLEAN :
          form = [id \in ElementIds(Rendered(formId)) |->
                    IF id \in ListFieldIds(formId) THEN typed
                    ELSE IF ~filled THEN <<>>
                    ELSE IF id \in TextIds(Rendered(formId)) THEN <<"a">>
                    ELSE FieldNamed(Rendered(formId), id).options[2].value]
    /\ derived = NoResult
    /\ formBefore = form
    /\ applied = FALSE
    /\ edits = 0
    /\ pc = "input"

SpecLists == InitLists /\ [][NextPrefill]_vars

----------------------------------------------------------------------------
(* C19: every value that the forward mapping writes for a list field, in the *)
(* suggestion and in the update, and every value that prefillFromProject     *)
(* puts into a list field of the form, is the ", "-joined list of its        *)
(* trimmed non-empty items.                                                  *)
NormalizedList(v) == v = join(normalizeList(v))

C19_ListsNormalized ==
    /\ AtResult =>
          \A i \in ListSuggestions :
             LET s == derived.suggestions[i]
             IN  /\ NormalizedList(s.newValue)
                 /\ NormalizedList(getByPath(UpdatesOf(s.entity), s.path))
    /\ AfterPrefill =>
          \A meta \in MapEntries :
             (meta.isList /\ meta.key \in DOMAIN form
                 /\ form[meta.key] # formBefore[meta.key])
                => NormalizedList(form[meta.key])

----------------------------------------------------------------------------
(* The interactive workflow and the extraction from a pasted response.    *)

MaxPhases == 4          \* most phases of a workflow configuration
MaxSteps == 4           \* most steps of the workflow explored

\* the alternatives of a keyword pattern
Alternatives(words) == {Chars(w) : w \in words}

\* the alternatives of the patterns, by the variable that takes the matches
Patterns ==
    [ stakeholder |->
          Alternatives({"stakeholder", "role", "responsibility", "team", "user", "person",
                              "individual", "member", "decision maker", "end user", "support team",
                              "participant", "involve", "engage"}),
      people |->
          Alternatives({"people", "individuals", "users", "staff", "employees", "customers",
                              "clients", "managers", "directors", "executives", "teams", "departments"}),
      painPoint |->
          Alternatives({"pain point", "issue", "problem", "bottleneck", "inefficiency",
                              "challenge", "difficulty", "barrier", "obstacle", "frustration",
                              "complaint", "gap", "weakness", "limitation", "constraint", "blocker",
                              "roadblock"}),
      problem |->
          Alternatives({"problems", "issues", "challenges", "difficulties", "barriers",
                              "obstacles", "frustrations", "complaints", "gaps", "weaknesses",
                              "limitations", "constraints", "blockers", "roadblocks"}),
      metric |->
          Alternatives({"metric", "kpi", "measure", "performance", "baseline", "target", "goal",
                              "objective", "success", "outcome", "result", "indicator", "measurement",
                              "benchmark", "standard", "criteria", "threshold"}),
      success |->
          Alternatives({"success", "outcome", "result", "performance", "measurement",
                              "benchmark", "standard", "criteria", "threshold", "target", "goal",
                              "objective"}),
      tech |->
          Alternatives({"technology", "system", "tool", "platform", "integration", "software",
                              "hardware", "database", "api", "interface", "constraint", "limitation",
                              "requirement", "dependency", "compatibility", "security", "compliance",
                              "performance", "capacity", "resource"}),
      technical |->
          Alternatives({"technical", "system", "tool", "platform", "integration", "software",
                              "hardware", "database", "api", "interface", "constraint", "limitation",
                              "requirement", "dependency", "compatibility", "security", "compliance",
                              "performance", "capacity", "resource"}),
      timeline |->
          Alternatives({"timeline", "schedule", "duration", "phase", "month", "week"}),
      budget |->
          Alternatives({"budget", "cost", "resource", "investment", "expense"}),
      change |->
          Alternatives({"change", "readiness", "resistance", "adoption", "training"}) ]

\* response.match(/(?:w1|w2|...)[^.]*\./gi): from the left, a keyword in any
\* case, then everything up to and with the next full stop; the search goes
\* on behind each match
RECURSIVE matchFrom(_, _, _, _)
matchFrom(text, lower, words, i) ==
    IF i > Len(text) THEN <<>>
    ELSE LET here == \E w \in words :
                        /\ i + Len(w) - 1 <= Len(text)
                        /\ SubSeq(lower, i, i + Len(w) - 1) = w
             stops == {p \in (i + 1)..Len(text) : text[p] = "."}
         IN  IF here /\ stops # {}
             THEN LET p == CHOOSE q \in stops : \A r \in stops : q <= r
                  IN  <<SubSeq(text, i, p)>> \o matchFrom(text, lower, words, p + 1)
             ELSE matchFrom(text, lower, words, i + 1)

match(text, words) == matchFrom(text, toLowerCase(text), words, 1)

\* matches.join(" ")
RECURSIVE joinSpace(_)
joinSpace(items) ==
    IF items = <<>> THEN <<>>
    ELSE IF Len(items) = 1 THEN items[1]
    ELSE items[1] \o <<" ">> \o joinSpace(Tail(items))

\* one extracted field: the matches of the pattern, or else of the broader
\* one, joined and trimmed; no key when neither matches
extractField(answer, key, words, broader) ==
    LET section == match(answer, words)
        second == match(answer, broader)
    IN  IF section # <<>> THEN (key :> trim(joinSpace(section)))
        ELSE IF second # <<>> THEN (key :> trim(joinSpace(second)))
        ELSE <<>>

extractedData(answer, phaseIndex) ==
    IF phaseIndex = 0
    THEN overlay(overlay(extractField(answer, "stakeholders", Patterns.stakeholder, Patterns.people),
                         extractField(answer, "currentPainPoints", Patterns.painPoint,
                                      Patterns.problem)),
                 overlay(extractField(answer, "successMetrics", Patterns.metric, Patterns.success),
                         extractField(answer, "technologyConstraints", Patterns.tech,
                                      Patterns.technical)))
    ELSE IF phaseIndex = 1
    THEN overlay(overlay(extractField(answer, "implementationTimeline", Patterns.timeline, {}),
                         extractField(answer, "budgetConstraints", Patterns.budget, {})),
                 extractField(answer, "changeReadiness", Patterns.change, {}))
    ELSE <<>>

\* what the user pastes into #workflow-response-input
Pasted ==
    {<<>>, Chars(" "), Chars("Hello."), Chars("The team. Staff."), Chars("Staff."),
     Chars("An issue"), Chars("Gaps. Performance."), Chars("A week. Cost. Training."),
     Chars("Our Users have an issue with the system. KPI."),
     Chars(" No resource change")}

\* the texts that reach the extraction: pasted, or pasted and trimmed
Answers == Pasted \cup {trim(value) : value \in Pasted}

\* extractedData for each of these texts and each phase index
Extracted == [answer \in Answers |-> [i \in 0..MaxPhases |-> extractedData(answer, i)]]

\* currentPhaseIndex = null, the default of the parameter
NullIndex == -1

\* the index extractAndPrePopulateNextPhase works on: the one given, or the
\* current phase
phaseIndexOf(w, currentPhaseIndex) ==
    IF currentPhaseIndex = NullIndex THEN w.currentPhase ELSE currentPhaseIndex

\* an extraction that does not look whether a next phase exists
extractAlways(w, answer, currentPhaseIndex) ==
    LET data == Extracted[answer][phaseIndexOf(w, currentPhaseIndex)]
    IN  [workflow |-> [w EXCEPT !.currentFormData = overlay(@, data)],
         toasted |-> DOMAIN data # {}]

\* extractAndPrePopulateNextPhase: the workflow object it leaves, and
\* whether it has shown its notification
extractAndPrePopulateNextPhase(w, answer, currentPhaseIndex) ==
    LET phaseIndex == phaseIndexOf(w, currentPhaseIndex)
        data == Extracted[answer][phaseIndex]
    IN  IF phaseIndex + 1 >= w.totalPhases
        THEN [workflow |-> w, toasted |-> FALSE]
        ELSE [workflow |-> [w EXCEPT !.currentFormData = overlay(@, data)],
              toasted |-> DOMAIN data # {}]

\* config.phases[i].fields of the end-to-end process workflow; a further
\* phase of a longer configuration has one field
PhaseFields(i) ==
    IF i = 0 THEN {"processName", "processType", "businessObjective", "currentProcessFlow"}
    ELSE IF i = 1 THEN {"stakeholders", "currentPainPoints", "successMetrics",
                        "technologyConstraints"}
    ELSE IF i = 2 THEN {"implementationTimeline", "budgetConstraints", "changeReadiness"}
    ELSE {"notes"}

\* what is as it was when the last extraction began
Snapshot(w) ==
    [workflow |-> w,
     local |-> Local, store |-> store, call |-> call, toast |-> toast]

startInteractiveWorkflow ==
    /\ wcall.n < MaxSteps
    /\ \E total \in 1..MaxPhases :
          interactiveWorkflow' = [isActive |-> TRUE, currentPhase |-> 0,
                                  totalPhases |-> total, phaseResults |-> <<>>,
                                  currentFormData |-> <<>>]
    /\ wcall' = [op |-> "start", n |-> wcall.n + 1, phaseIndex |-> 0, before |-> <<>>]
    /\ screen' = "workflow-form"
    /\ UNCHANGED <<project, feature, formId, form, derived, formBefore, applied, edits, pc,
                   hints, storeVars, transcribeVars, sessionToken, currentUser, pendingSuggestions,
                   pendingUpdatePayload, requests, checked, inflight, derivedFor, flights>>

\* generateWorkflowPrompt: the form of the current phase, rendered with the
\* values of currentFormData and perhaps retyped, becomes currentFormData;
\* showWorkflowPromptInCurrentScreen hides the form and shows the paste section
generateWorkflowPrompt ==
    /\ wcall.n < MaxSteps
    /\ interactiveWorkflow.isActive
    /\ screen = "workflow-form"
    /\ \E retyped \in BOOLEAN :
          interactiveWorkflow' =
             [interactiveWorkflow EXCEPT !.currentFormData =
                 [name \in PhaseFields(interactiveWorkflow.currentPhase) |->
                     IF retyped THEN <<"t">>
                     ELSE get(interactiveWorkflow.currentFormData, name)]]
    /\ wcall' = [op |-> "generate", n |-> wcall.n + 1, phaseIndex |-> 0, before |-> <<>>]
    /\ screen' = "workflow-paste"
    /\ UNCHANGED <<project, feature, formId, form, derived, formBefore, applied, edits, pc,
                   hints, storeVars, transcribeVars, sessionToken, currentUser, pendingSuggestions,
                   pendingUpdatePayload, requests, checked, inflight, derivedFor, flights>>

\* proceedToNextPhase with prePopulateNextPhase, from the button of the paste
\* section, which showInteractiveWorkflowInterface renders before the last
\* phase only
proceedToNextPhase ==
    /\ wcall.n < MaxSteps
    /\ interactiveWorkflow.isActive
    /\ screen = "workflow-paste"
    /\ interactiveWorkflow.currentPhase < interactiveWorkflow.totalPhases - 1
    /\ \E value \in Pasted :
          LET stored == IF trim(value) # <<>>
                        THEN [interactiveWorkflow EXCEPT !.phaseResults =
                                 SetKey(@, ToString(interactiveWorkflow.currentPhase),
                                        trim(value))]
                        ELSE interactiveWorkflow
              moved == [stored EXCEPT !.currentPhase = @ + 1]
              previousResults == get(moved.phaseResults, ToString(moved.currentPhase - 1))
              out == extractAndPrePopulateNextPhase(moved, previousResults,
                                                    moved.currentPhase - 1)
          IN  /\ IF moved.currentPhase < moved.totalPhases /\ previousResults # <<>>
                 THEN /\ interactiveWorkflow' = out.workflow
                      /\ toast' = IF out.toasted THEN "success" ELSE toast
                      /\ wcall' = [op |-> "extract", n |-> wcall.n + 1,
                                   phaseIndex |-> moved.currentPhase - 1,
                                   before |-> Snapshot(moved)]
                 ELSE /\ interactiveWorkflow' = moved
                      /\ wcall' = [op |-> "proceed", n |-> wcall.n + 1, phaseIndex |-> 0,
                                   before |-> <<>>]
                      /\ UNCHANGED toast
              \* showInteractiveWorkflowInterface, or completeWorkflow
              /\ screen' = IF moved.currentPhase < moved.totalPhases THEN "workflow-form"
                           ELSE "workflow-complete"
    /\ UNCHANGED <<project, feature, formId, form, derived, formBefore, applied, edits, pc,
                   hints, projectCache, featureCache, activeProjectId, activeFeatureId,
                   store, call, transcribeVars, sessionToken, currentUser, pendingSuggestions,
                   pendingUpdatePayload, requests, checked, inflight, derivedFor, flights>>

\* completeWorkflow, from the button the paste section of the last phase has
\* in the place of the response input
completeWorkflow ==
    /\ wcall.n < MaxSteps
    /\ interactiveWorkflow.isActive
    /\ screen = "workflow-paste"
    /\ ~(interactiveWorkflow.currentPhase < interactiveWorkflow.totalPhases - 1)
    /\ screen' = "workflow-complete"
    /\ wcall' = [op |-> "complete", n |-> wcall.n + 1, phaseIndex |-> 0, before |-> <<>>]
    /\ UNCHANGED <<project, feature, formId, form, derived, formBefore, applied, edits, pc,
                   hints, storeVars, transcribeVars, interactiveWorkflow,
                   sessionToken, currentUser, pendingSuggestions, pendingUpdatePayload,
                   requests, checked, inflight, derivedFor, flights>>

\* showInteractiveWorkflowInterface, from "Back to Form" of the paste section
backToForm ==
    /\ wcall.n < MaxSteps
    /\ interactiveWorkflow.isActive
    /\ screen = "workflow-paste"
    /\ screen' = "workflow-form"
    /\ wcall' = [op |-> "back", n |-> wcall.n + 1, phaseIndex |-> 0, before |-> <<>>]
    /\ UNCHANGED <<project, feature, formId, form, derived, formBefore, applied, edits, pc,
                   hints, storeVars, transcribeVars, interactiveWorkflow,
                   sessionToken, currentUser, pendingSuggestions, pendingUpdatePayload,
                   requests, checked, inflight, derivedFor, flights>>

\* extractAndPrePopulateNextPhase called on a response, with or without an index
extractCall ==
    /\ wcall.n < MaxSteps
    /\ interactiveWorkflow.isActive
    /\ \E answer \in Pasted, currentPhaseIndex \in {NullIndex} \cup 0..(MaxPhases - 1) :
          LET out == extractAndPrePopulateNextPhase(interactiveWorkflow, answer,
                                                    currentPhaseIndex)
          IN  /\ interactiveWorkflow' = out.workflow
              /\ toast' = IF out.toasted THEN "success" ELSE toast
              /\ wcall' = [op |-> "extract", n |-> wcall.n + 1,
                           phaseIndex |-> phaseIndexOf(interactiveWorkflow, currentPhaseIndex),
                           before |-> Snapshot(interactiveWorkflow)]
    /\ UNCHANGED <<project, feature, formId, form, derived, formBefore, applied, edits, pc,
                   hints, projectCache, featureCache, activeProjectId, activeFeatureId,
                   store, call, transcribeVars, appVars>>

NextWorkflow ==
    \/ startInteractiveWorkflow
    \/ generateWorkflowPrompt
    \/ proceedToNextPhase
    \/ completeWorkflow
    \/ backToForm
    \/ extractCall

\* logged in with a project loaded and selected; no workflow started yet
InitWorkflow ==
    /\ hints = <<>>
    /\ TranscribeIdle
    /\ WorkflowIdle
    /\ AppIdle
    /\ store = [projects |-> <<[id |-> "1", name |-> <<"p">>,
                                details |-> [general |-> ModalGeneral(<<"p">>, <<>>)]]>>,
                features |-> [pid \in ProjectIds |-> <<>>]]
    /\ projectCache = store.projects
    /\ featureCache = ("1" :> <<>>)
    /\ activeProjectId = "1"
    /\ activeFeatureId = ""
    /\ toast \in {"", "error"}
    /\ call = NoCall
    /\ project = Absent
    /\ feature = Absent
    /\ formId = "endToEndProcess"
    /\ form = [id \in {} |-> <<>>]
    /\ derived = NoResult
    /\ formBefore = form
    /\ applied = FALSE
    /\ edits = 0
    /\ pc = "input"

SpecWorkflow == InitWorkflow /\ [][NextWorkflow]_vars

----------------------------------------------------------------------------
(* C20: right after extractAndPrePopulateNextPhase the workflow object is    *)
(* what it was but for currentFormData, which has lost no key and has new    *)
(* values only under the fields of the transition (four after phase 0,       *)
(* three after phase 1, none after a later one); the caches, the active ids  *)
(* and the Store are what they were and no request was made; and when no     *)
(* phase follows, nothing has changed and nothing was notified.  The         *)
(* notification shown after an extraction is not counted as a change.        *)
TransitionFields(phaseIndex) ==
    IF phaseIndex = 0
    THEN {"stakeholders", "currentPainPoints", "successMetrics", "technologyConstraints"}
    ELSE IF phaseIndex = 1
    THEN {"implementationTimeline", "budgetConstraints", "changeReadiness"}
    ELSE {}

\* the keys of currentFormData that the last extraction has set or changed
Populated ==
    {k \in DOMAIN interactiveWorkflow.currentFormData :
        \/ k \notin DOMAIN wcall.before.workflow.currentFormData
        \/ interactiveWorkflow.currentFormData[k] #
              wcall.before.workflow.currentFormData[k]}

C20_ExtractionOnlyPrepopulates ==
    wcall.op = "extract" =>
        LET before == wcall.before
        IN  /\ interactiveWorkflow =
                  [before.workflow EXCEPT
                     !.currentFormData = interactiveWorkflow.currentFormData]
            /\ DOMAIN before.workflow.currentFormData \subseteq
                  DOMAIN interactiveWorkflow.currentFormData
            /\ Populated \subseteq TransitionFields(wcall.phaseIndex)
            /\ Local = before.local
            /\ store = before.store
            /\ call = before.call
            /\ wcall.phaseIndex + 1 >= before.workflow.totalPhases =>
                  (interactiveWorkflow = before.workflow /\ toast = before.toast)

\* an extraction after phase 0 that has populated all four fields
C20_Witness ==
    /\ wcall.op = "extract"
    /\ wcall.phaseIndex = 0
    /\ Cardinality(Populated) = 4

----------------------------------------------------------------------------
(* The form screen with its validation: generatePrompt, which is             *)
(* runGeneratePrompt as a whole, on the forms of the phases stories,         *)
(* enhancedTooltips and prioritization.  `form` holds el.value of the        *)
(* inputs that carry a text and `checked` the checkboxes and radios that are *)
(* checked, each as <<field name, number of the option>>.                    *)

\* a field of phaseConfigs with options that is no select
Group(n, l, t, opts, req) ==
    [Field(n, l, t, <<>>, req) EXCEPT
        !.options = [i \in 1..Len(opts) |-> [value |-> Chars(opts[i]), text |-> Chars(opts[i])]]]

\* phaseConfigs.enhancedTooltips.fields
EnhancedTooltipsFields ==
    << Field("peteUser", "Who is the user?", "textarea", <<>>, TRUE),
       Group("contentDepth", "Content Depth Level", "radio-group",
             <<"Quick Reference (basic steps, key points)",
               "Standard Guide (detailed steps with explanations)",
               "Comprehensive Manual (in-depth coverage with context)">>, TRUE),
       Group("formatOptions", "Preferred Documentation Formats", "checkbox-group",
             <<"Step-by-step written guide", "Video tutorial script",
               "Interactive walkthrough script", "Quick reference card", "FAQ section",
               "Troubleshooting guide", "Visual flowchart/diagram">>, TRUE),
       Group("highlightType", "Select what should be highlighted", "checkbox-group",
             <<"Required fields", "Dependency between fields", "Page navigation tips",
               "Data grid purposes">>, TRUE),
       Field("highlightDescription", "Describe what to highlight", "textarea", <<>>, FALSE) >>

\* phaseConfigs.prioritization.fields; the three sub-fields of the group
\* teamSize stand in its place, each is rendered into a form group of its own
PrioritizationFields ==
    << Field("projectName", "Project Name", "text", <<>>, TRUE),
       Field("epics", "Epic(s)", "epic-table", <<>>, TRUE),
       Field("timelineConstraints", "Timeline Constraints", "textarea", <<>>, FALSE),
       Field("roadblocks", "Known Roadblocks", "textarea", <<>>, FALSE),
       Field("priorityCriteria", "Priority Criteria", "select",
             <<"Business Value", "Technical Complexity", "User Impact", "Risk Level",
               "Dependencies", "Custom Criteria">>, TRUE),
       Field("autoAdjustment", "Enable Auto-Timeline Adjustment", "select",
             <<"Yes", "No">>, TRUE),
       Field("businessAnalysts", "Business Analysts", "number", <<>>, TRUE),
       Field("developers", "Developers", "number", <<>>, TRUE),
       Field("qualityAssurance", "QA Engineers", "number", <<>>, TRUE) >>

\* phaseConfigs[currentPhase].fields of the three phases
PhaseForm(phaseKey) ==
    IF phaseKey = "stories" THEN StoriesFields
    ELSE IF phaseKey = "enhancedTooltips" THEN EnhancedTooltipsFields
    ELSE IF phaseKey = "prioritization" THEN PrioritizationFields
    ELSE <<>>

\* the named inputs generateFormFields creates for a field, with the
\* `required` it gives them: the checkboxes of a group get none, the hidden
\* input of an epic table gets none, the radios of a group and the hidden
\* input of a participant table get the one of the field.  The inputs of the
\* table rows have no name and are not required.
inputsOf(field) ==
    IF field.type = "checkbox-group"
    THEN [k \in 1..Len(field.options) |->
            [name |-> field.name, type |-> "checkbox", required |-> FALSE, option |-> k]]
    ELSE IF field.type = "radio-group"
    THEN [k \in 1..Len(field.options) |->
            [name |-> field.name, type |-> "radio", required |-> field.required, option |-> k]]
    ELSE IF field.type = "epic-table"
    THEN <<[name |-> field.name, type |-> "hidden", required |-> FALSE, option |-> 0]>>
    ELSE IF field.type = "participant-table"
    THEN <<[name |-> field.name, type |-> "hidden", required |-> field.required, option |-> 0]>>
    ELSE <<[name |-> field.name, type |-> field.type, required |-> field.required,
            option |-> 0]>>

\* document.querySelectorAll("#phase-form input, #phase-form textarea,
\* #phase-form select"), the named ones
RECURSIVE allInputs(_)
allInputs(fields) ==
    IF fields = <<>> THEN <<>> ELSE inputsOf(Head(fields)) \o allInputs(Tail(fields))

\* ids of the inputs that carry a text
ValueIds(fields) ==
    {fields[i].name : i \in {j \in 1..Len(fields) :
                               fields[j].type \notin {"checkbox-group", "radio-group"}}}

\* the values of the checked options of a field, in the order of the form
RECURSIVE checkedValues(_, _, _)
checkedValues(field, chk, k) ==
    IF k > Len(field.options) THEN <<>>
    ELSE (IF <<field.name, k>> \in chk THEN <<field.options[k].value>> ELSE <<>>)
         \o checkedValues(field, chk, k + 1)

\* formData[name] after the loop over the entries of the FormData and the
\* join of the checkbox groups; a control that is not checked gives no entry
formDataOf(fields, frm, chk, name) ==
    LET field == FieldNamed(fields, name)
    IN  IF field.type = "checkbox-group" THEN join(checkedValues(field, chk, 1))
        ELSE IF field.type = "radio-group"
        THEN LET vals == checkedValues(field, chk, 1)
             IN  IF vals = <<>> THEN <<>> ELSE vals[1]
        ELSE get(frm, name)

\* visibleRequiredFields filtered by !formData[field.name] ||
\* formData[field.name].toString().trim() === ""; no form group of the three
\* phases is hidden
missingInputs(fields, frm, chk) ==
    LET inputs == allInputs(fields)
    IN  {i \in 1..Len(inputs) :
            /\ inputs[i].required
            /\ trim(formDataOf(fields, frm, chk, inputs[i].name)) = <<>>}

\* the request of savePhaseSubmission, which sends none without a session
\* token and only logs how its request went
savePhaseSubmission(phase, payload) ==
    IF sessionToken = "" THEN <<>>
    ELSE <<Req(sessionToken, "POST", <<"submissions">>,
               [phase |-> phase, payload |-> payload,
                projectId |-> activeProjectId, featureId |-> activeFeatureId])>>

\* generatePrompt: runGeneratePrompt from the collection of the form data to
\* showScreen("prompt-screen")
generatePrompt ==
    /\ call.n < MaxCalls
    /\ screen = "form-screen"
    /\ call' = [op |-> "runGeneratePrompt", failed |-> FALSE, n |-> call.n + 1,
                before |-> Local, form |-> ""]
    /\ IF PhaseForm(formId) = <<>> \/ missingInputs(PhaseForm(formId), form, checked) # {}
       THEN /\ toast' = "error"
            /\ requests' = <<>>
            /\ UNCHANGED <<pendingSuggestions, pendingUpdatePayload, screen, derivedFor>>
       ELSE LET out == deriveProjectUpdates(Against.project, Against.feature, formId, form)
            IN  /\ pendingSuggestions' = out.suggestions
                /\ pendingUpdatePayload' = [projectUpdates |-> out.projectUpdates,
                                            featureUpdates |-> out.featureUpdates]
                /\ derivedFor' = Against
                /\ requests' = savePhaseSubmission(formId, form)
                /\ screen' = "prompt-screen"
                /\ toast' = toast
    /\ UNCHANGED <<project, feature, formId, form, derived, formBefore, applied, edits, pc,
                   hints, projectCache, featureCache, activeProjectId, activeFeatureId, store,
                   transcribeVars, workflowVars, sessionToken, currentUser, checked, inflight,
                   flights>>

\* goToForm
goToForm ==
    /\ screen = "prompt-screen"
    /\ screen' = "form-screen"
    /\ UNCHANGED <<project, feature, formId, form, derived, formBefore, applied, edits, pc,
                   hints, storeVars, transcribeVars, workflowVars, sessionToken, currentUser,
                   pendingSuggestions, pendingUpdatePayload, requests, checked, inflight,
                   derivedFor, flights>>

\* what the user can put into an input that carries a text
Typed(field) ==
    IF field.type = "select" THEN {field.options[i].value : i \in 1..Len(field.options)}
    ELSE IF field.type = "number" THEN {<<>>, <<"0">>}
    ELSE IF field.type = "epic-table" THEN {<<>>, Chars("**b**")}
    ELSE {<<>>, <<" ">>, <<"b">>}

\* the user changes one input of the form: types into it, picks an option,
\* fills or empties the rows of the table, ticks or unticks a checkbox, or
\* picks a radio
Fill ==
    /\ screen = "form-screen"
    /\ edits < MaxEdits
    /\ edits' = edits + 1
    /\ \E i \in 1..Len(PhaseForm(formId)) :
         LET field == PhaseForm(formId)[i]
         IN  IF field.type = "checkbox-group"
             THEN /\ \E k \in 1..Len(field.options) :
                       checked' = IF <<field.name, k>> \in checked
                                  THEN checked \ {<<field.name, k>>}
                                  ELSE checked \cup {<<field.name, k>>}
                  /\ form' = form
             ELSE IF field.type = "radio-group"
             THEN /\ \E k \in 1..Len(field.options) :
                       /\ <<field.name, k>> \notin checked
                       /\ checked' = {c \in checked : c[1] # field.name} \cup {<<field.name, k>>}
                  /\ form' = form
             ELSE /\ \E v \in Typed(field) :
                       /\ v # form[field.name]
                       /\ form' = SetKey(form, field.name, v)
                  /\ checked' = checked
    /\ UNCHANGED <<project, feature, formId, derived, formBefore, applied, pc, hints, storeVars,
                   transcribeVars, workflowVars, sessionToken, currentUser, pendingSuggestions,
                   pendingUpdatePayload, requests, screen, inflight, derivedFor, flights>>

NextValidate == generatePrompt \/ goToForm \/ Fill

\* the project of the session
SessionStore ==
    [projects |-> <<[id |-> "1", name |-> <<"p">>,
                     details |-> [general |-> ModalGeneral(<<"p">>, <<>>)]]>>,
     features |-> [pid \in ProjectIds |-> <<>>]]

\* logged in or not, the project loaded and selected, the form of a phase
\* rendered: as rendered, or with every field filled in
InitValidate ==
    /\ hints = <<>>
    /\ TranscribeIdle
    /\ WorkflowIdle
    /\ store = SessionStore
    /\ projectCache = [i \in 1..Len(store.projects) |-> Normalized(Sent(store.projects[i], "string"))]
    /\ featureCache = [pid \in {"1"} |-> <<>>]
    /\ activeProjectId = "1"
    /\ activeFeatureId = ""
    /\ toast = ""
    /\ call = NoCall
    /\ sessionToken \in {"", "t1"}
    /\ currentUser = IF sessionToken = "" THEN "" ELSE "u1"
    /\ pendingSuggestions = <<>>
    /\ pendingUpdatePayload = Null
    /\ requests = <<>>
    /\ screen = "form-screen"
    /\ inflight = <<>>
    /\ derivedFor = <<>>
    /\ flights = <<>>
    /\ formId \in {"stories", "enhancedTooltips", "prioritization"}
    /\ \E filled \in BOOLEAN :
         /\ form = [id \in ValueIds(PhaseForm(formId)) |->
                      IF ~filled THEN <<>>
                      ELSE LET field == FieldNamed(PhaseForm(formId), id)
                           IN  IF field.type = "select" THEN field.options[2].value
                               ELSE IF field.type = "number" THEN <<"0">>
                               ELSE IF field.type = "epic-table" THEN Chars("**b**")
                               ELSE <<"b">>]
         /\ checked = IF filled
                      THEN {<<PhaseForm(formId)[i].name, 1>> :
                              i \in {j \in 1..Len(PhaseForm(formId)) :
                                       PhaseForm(formId)[j].type \in
                                          {"checkbox-group", "radio-group"}}}
                      ELSE {}
    /\ project = Absent
    /\ feature = Absent
    /\ derived = NoResult
    /\ formBefore = form
    /\ applied = FALSE
    /\ edits = 0
    /\ pc = "input"

SpecValidate == InitValidate /\ [][NextValidate]_vars

\* the required fields of the phase form, all of them visible, that hold
\* nothing or white space only
EmptyRequired ==
    {i \in 1..Len(PhaseForm(formId)) :
        LET field == PhaseForm(formId)[i]
        IN  /\ field.required
            /\ IF field.type \in {"checkbox-group", "radio-group"}
               THEN \A k \in 1..Len(field.options) : <<field.name, k>> \notin checked
               ELSE trim(form[field.name]) = <<>>}

----------------------------------------------------------------------------
(* C21: when a visible required field of the phase form is empty or holds    *)
(* white space only, runGeneratePrompt shows an error and stops: the prompt  *)
(* screen is not shown, pendingSuggestions and pendingUpdatePayload stay as  *)
(* they are and no phase submission is sent.                                 *)
C21_ValidationStops ==
    [][(call'.n = call.n + 1 /\ call'.op = "runGeneratePrompt" /\ EmptyRequired # {}) =>
          (/\ toast' = "error"
           /\ screen' = "form-screen"
           /\ pendingSuggestions' = pendingSuggestions
           /\ pendingUpdatePayload' = pendingUpdatePayload
           /\ requests' = <<>>)]_vars

----------------------------------------------------------------------------
(* The session: checkAuthStatus, handleLogin, handleRegister, logout and     *)
(* handleUserSubmit, each in one step with the outcome of its requests       *)
(* chosen by the environment, next to the handlers of the project manager.   *)

\* the state of the mapper runs and of the rendered form
mapperVars == <<project, feature, formId, form, derived, formBefore, applied, edits, pc, hints>>

\* the token and the user a successful login or registration returns
FreshToken == "t1"
LoggedUser == "u1"

\* how a request can go: a response that is ok, a response that is not, or
\* a network error
Outcomes == {"ok", "refused", "network"}

\* what a handler of the session leaves
Leave(c, t, op, reqs, usr, scr) ==
    /\ projectCache' = c.projectCache
    /\ featureCache' = c.featureCache
    /\ activeProjectId' = c.activeProjectId
    /\ activeFeatureId' = c.activeFeatureId
    /\ sessionToken' = c.sessionToken
    /\ currentUser' = usr
    /\ screen' = scr
    /\ toast' = t
    /\ requests' = reqs
    /\ call' = [op |-> op, failed |-> FALSE, n |-> call.n + 1, before |-> Local, form |-> ""]
    /\ UNCHANGED <<mapperVars, store, transcribeVars, workflowVars, pendingSuggestions,
                   pendingUpdatePayload, checked, inflight, derivedFor, flights>>

\* checkAuthStatus from its first line: what it leaves of the local state,
\* of currentUser and of the screen, and the requests it sends
authChecked(c, usr, scr, outcome, okProjects, okFeatures, f) ==
    LET me == Req(c.sessionToken, "GET", <<"me">>, <<>>)
    IN  IF c.sessionToken = ""
        THEN [local |-> c, user |-> usr, screen |-> "auth-screen", requests |-> <<>>]
        ELSE IF outcome = "ok"
        THEN [local |-> loadProjects(c, store, okProjects, okFeatures, f),
              user |-> LoggedUser, screen |-> "phase-selection",
              requests |-> <<me>> \o projectsRequests(c, okProjects)]
        ELSE IF outcome = "refused"
        THEN [local |-> [c EXCEPT !.sessionToken = ""], user |-> usr,
              screen |-> "auth-screen", requests |-> <<me>>]
        ELSE [local |-> c, user |-> usr, screen |-> "auth-screen", requests |-> <<me>>]

\* checkAuthStatus on DOMContentLoaded
checkAuthStatus ==
    /\ screen = ""
    /\ \E outcome \in Outcomes, okProjects \in BOOLEAN, okFeatures \in BOOLEAN :
         LET out == authChecked(Local, currentUser, screen, outcome, okProjects, okFeatures,
                                "string")
         IN  Leave(out.local, toast, "checkAuthStatus", out.requests, out.user, out.screen)

\* handleLogin and handleRegister after a response that is ok and carries
\* success: the token and the user are set, the main app is shown and the
\* projects are loaded with the new token
signedIn(op, url, okProjects, okFeatures) ==
    LET c == [Local EXCEPT !.sessionToken = FreshToken]
    IN  Leave(loadProjects(c, store, okProjects, okFeatures, "string"), "success", op,
              <<Req("", "POST", <<url>>, <<>>)>> \o projectsRequests(c, okProjects),
              LoggedUser, "phase-selection")

\* handleLogin: a refusal and a network error are written into the form
handleLogin ==
    /\ call.n < MaxCalls
    /\ screen = "auth-screen"
    /\ \E outcome \in Outcomes, okProjects \in BOOLEAN, okFeatures \in BOOLEAN :
         IF outcome = "ok" THEN signedIn("handleLogin", "login", okProjects, okFeatures)
         ELSE Leave(Local, toast, "handleLogin", <<Req("", "POST", <<"login">>, <<>>)>>,
                    currentUser, screen)

\* handleRegister
handleRegister ==
    /\ call.n < MaxCalls
    /\ screen = "auth-screen"
    /\ \E outcome \in Outcomes, okProjects \in BOOLEAN, okFeatures \in BOOLEAN :
         IF outcome = "ok" THEN signedIn("handleRegister", "register", okProjects, okFeatures)
         ELSE Leave(Local, toast, "handleRegister", <<Req("", "POST", <<"register">>, <<>>)>>,
                    currentUser, screen)

\* logout: whatever becomes of its request, the token and the user are set
\* to null and the auth screen is shown
logout ==
    /\ call.n < MaxCalls
    /\ currentUser # ""
    /\ Leave([Local EXCEPT !.sessionToken = ""], "success", "logout",
             IF sessionToken = "" THEN <<>>
             ELSE <<Req(sessionToken, "POST", <<"logout">>, <<>>)>>,
             "", "auth-screen")

\* handleUserSubmit on the modal of the user management: a user is created,
\* or a user is updated; after the update of the current user it awaits
\* checkAuthStatus
handleUserSubmit ==
    /\ call.n < MaxCalls
    /\ currentUser # ""
    /\ \E userId \in {"", LoggedUser, "u2"}, outcome \in Outcomes, check \in Outcomes,
          okProjects \in BOOLEAN, okFeatures \in BOOLEAN :
         LET submit == IF userId = ""
                       THEN Req(sessionToken, "POST", <<"users", "create">>, <<>>)
                       ELSE Req(sessionToken, "PUT", <<"users", userId>>, <<>>)
             users == Req(sessionToken, "GET", <<"users">>, <<>>)
             out == authChecked(Local, currentUser, screen, check, okProjects, okFeatures,
                                "string")
         IN  IF outcome # "ok"
             THEN Leave(Local, "error", "handleUserSubmit", <<submit>>, currentUser, screen)
             ELSE IF userId # currentUser
             THEN Leave(Local, "success", "handleUserSubmit", <<submit, users>>, currentUser,
                        screen)
             ELSE Leave(out.local, "success", "handleUserSubmit",
                        <<submit, users>> \o out.requests, out.user, out.screen)

NextAuth == checkAuthStatus \/ handleLogin \/ handleRegister \/ logout \/ handleUserSubmit

\* the page has just been loaded, with what localStorage holds of the last
\* session: a session token or none, the ids of a project and a feature or
\* none; no screen is shown yet
PageLoaded ==
    /\ sessionToken \in {"", "t0"}
    /\ currentUser = ""
    /\ store = [SessionStore EXCEPT
                  !.features["1"] = <<[id |-> "f1", name |-> <<"f">>,
                                       details |-> [general |->
                                          [description |-> <<>>, tShirtSize |-> <<>>,
                                           name |-> <<"f">>]]]>>]
    /\ projectCache = <<>>
    /\ featureCache = <<>>
    /\ \E ids \in {<<"", "">>, <<"1", "">>, <<"1", "f1">>} :
         /\ activeProjectId = ids[1]
         /\ activeFeatureId = ids[2]
    /\ toast = ""
    /\ call = NoCall
    /\ pendingSuggestions = <<>>
    /\ pendingUpdatePayload = Null
    /\ requests = <<>>
    /\ screen = ""
    /\ checked = {}
    /\ inflight = <<>>
    /\ derivedFor = <<>>
    /\ flights = <<>>
    /\ hints = <<>>
    /\ TranscribeIdle
    /\ WorkflowIdle
    /\ formId = ""
    /\ form = <<>>
    /\ project = Absent
    /\ feature = Absent
    /\ derived = NoResult
    /\ formBefore = form
    /\ applied = FALSE
    /\ edits = 0
    /\ pc = "input"

SpecAuth == PageLoaded /\ [][NextAuth]_vars

\* the handlers of the project manager and of the suggestion banner next to
\* those of the session.  No handler closes the project manager or hides
\* the banner: logout and checkAuthStatus switch the screen only.
NextSession ==
    \/ handleLogin \/ handleRegister \/ logout \/ handleUserSubmit
    \/ saveProject \/ deleteProject \/ saveFeature \/ deleteFeatureEntry \/ applySuggestions

\* a session under way: logged in, the projects loaded, suggestions pending
SpecSession == InitStore /\ [][NextSession]_vars

\* the requests to the projects and the features of the Store
StoreRequests == {i \in 1..Len(requests) : requests[i].url[1] = "projects"}

----------------------------------------------------------------------------
(* C22: every request that saveProject, deleteProject, saveFeature,          *)
(* deleteFeatureEntry, applySuggestions, loadProjects and                    *)
(* loadFeaturesForProject send to the Store carries a session token: none    *)
(* is sent while sessionToken is null, after a logout and after an           *)
(* invalidated session included.                                             *)
C22_RequestsBearToken ==
    \A i \in StoreRequests : requests[i].token # ""

----------------------------------------------------------------------------
(* The suggestions pending between runGeneratePrompt and applySuggestions.   *)

\* dismissSuggestions, from the banner the suggestions are listed in
dismissSuggestions ==
    /\ call.n < MaxCalls
    /\ pendingSuggestions # <<>>
    /\ After(Local, store, toast, Cleared, "dismissSuggestions", FALSE, "", <<>>)

NextPending == generatePrompt \/ goToForm \/ applySuggestions \/ dismissSuggestions

\* a form about to be submitted, or the suggestions of a submission pending
InitPending == InitValidate \/ InitStore

SpecPending == InitPending /\ [][NextPending]_vars

\* the handler that has just run
Ran(op) == call'.n = call.n + 1 /\ call'.op = op

\* what runGeneratePrompt derives from the form as submitted
Derivation == deriveProjectUpdates(Against.project, Against.feature, formId, form)

(* C23: pendingSuggestions and pendingUpdatePayload change together and in   *)
(* runGeneratePrompt, applySuggestions and dismissSuggestions only:          *)
(* runGeneratePrompt sets both from one derivation; dismissSuggestions and   *)
(* an applySuggestions that ends with the success notification leave the     *)
(* list empty and the payload null; an applySuggestions whose request has    *)
(* failed, or that found no session token, leaves both as they were.         *)
C23_PendingLifecycle ==
    [][(/\ (Ran("runGeneratePrompt") /\ screen' = "prompt-screen") =>
              (/\ pendingSuggestions' = Derivation.suggestions
               /\ pendingUpdatePayload' = [projectUpdates |-> Derivation.projectUpdates,
                                           featureUpdates |-> Derivation.featureUpdates])
        /\ (Ran("dismissSuggestions") \/ (Ran("applySuggestions") /\ toast' = "success")) =>
              (pendingSuggestions' = <<>> /\ pendingUpdatePayload' = Null)
        /\ (Ran("applySuggestions") /\ (call'.failed \/ sessionToken = "")) =>
              (/\ pendingSuggestions' = pendingSuggestions
               /\ pendingUpdatePayload' = pendingUpdatePayload)
        /\ (pendingSuggestions' # pendingSuggestions
              \/ pendingUpdatePayload' # pendingUpdatePayload) =>
              (/\ Ran("runGeneratePrompt") \/ Ran("applySuggestions")
                    \/ Ran("dismissSuggestions")
               /\ (pendingUpdatePayload' = Null) = (pendingUpdatePayload # Null
                                                      /\ ~Ran("runGeneratePrompt"))
               /\ pendingUpdatePayload' = Null => pendingSuggestions' = <<>>))]_vars

\* a retried applySuggestions after a failed one, the suggestions still pending
C23_Witness ==
    /\ call.op = "applySuggestions"
    /\ call.n = 2
    /\ call.failed
    /\ pendingSuggestions # <<>>
    /\ pendingUpdatePayload # Null

----------------------------------------------------------------------------
(* The selection of the project and of the feature.  The handlers do not     *)
(* await loadFeaturesForProject: its request is in flight when they return,  *)
(* and its response is handled whenever it arrives.                          *)

\* what a selection handler leaves: the local state, the requests it has
\* sent and the requests for feature lists still in flight
Chosen(c, op, reqs, fl) ==
    /\ projectCache' = c.projectCache
    /\ featureCache' = c.featureCache
    /\ activeProjectId' = c.activeProjectId
    /\ activeFeatureId' = c.activeFeatureId
    /\ requests' = reqs
    /\ inflight' = fl
    /\ call' = [op |-> op, failed |-> FALSE, n |-> call.n + 1, before |-> Local, form |-> ""]
    /\ UNCHANGED <<mapperVars, store, toast, transcribeVars, workflowVars, sessionToken,
                   currentUser, pendingSuggestions, pendingUpdatePayload, screen, checked,
                   derivedFor, flights>>

\* loadFeaturesForProject up to its fetch: the requests in flight after it
requested(c, projectId) ==
    IF c.sessionToken = "" \/ projectId = "" THEN inflight ELSE Append(inflight, projectId)

\* setActiveProject, which handleProjectSelectChange repeats line by line
setActiveProjectTo(id, op) ==
    LET c == [Local EXCEPT !.activeProjectId = id, !.activeFeatureId = ""]
    IN  Chosen(c, op, featuresRequests(c, id), requested(c, id))

\* handleProjectSelectChange, on a change of #project-select: the options
\* are the cached projects and "Ad-hoc (no project)"
handleProjectSelectChange ==
    /\ call.n < MaxCalls
    /\ \E id \in (Ids(projectCache) \cup {""}) \ {activeProjectId} :
         setActiveProjectTo(id, "handleProjectSelectChange")

\* setActiveProject, from a card of the projects overview or from
\* startNewProjectFlow
setActiveProject ==
    /\ call.n < MaxCalls
    /\ \E id \in Ids(projectCache) \cup {""} : setActiveProjectTo(id, "setActiveProject")

\* handleFeatureSelectChange, on a change of #feature-select: the options
\* are the cached features of the active project and "None"
handleFeatureSelectChange ==
    /\ call.n < MaxCalls
    /\ \E id \in (Ids(get(featureCache, activeProjectId)) \cup {""}) \ {activeFeatureId} :
         Chosen([Local EXCEPT !.activeFeatureId = id], "handleFeatureSelectChange", <<>>,
                inflight)

\* loadFeaturesForProject from the response of its fetch, for any of the
\* requests in flight
featuresLoaded ==
    \E i \in 1..Len(inflight), ok \in BOOLEAN, f \in {"string", "object"} :
       LET projectId == inflight[i]
           c == IF ok /\ projectId \in Ids(store.projects)
                THEN loadedFeatures(Local, store, projectId, f) ELSE Local
       IN  /\ projectCache' = c.projectCache
           /\ featureCache' = c.featureCache
           /\ activeProjectId' = c.activeProjectId
           /\ activeFeatureId' = c.activeFeatureId
           /\ inflight' = [k \in 1..(Len(inflight) - 1) |->
                             IF k < i THEN inflight[k] ELSE inflight[k + 1]]
           /\ UNCHANGED <<mapperVars, store, toast, call, transcribeVars, workflowVars,
                          sessionToken, currentUser, pendingSuggestions, pendingUpdatePayload,
                          requests, screen, checked, derivedFor, flights>>

\* the form generateFormFields renders
BlankForm(phaseKey) == [id \in ValueIds(PhaseForm(phaseKey)) |-> <<>>]

\* selectPhase, for a phase with a form
selectPhase ==
    /\ call.n < MaxCalls
    /\ \E phase \in {"stories", "enhancedTooltips", "prioritization"} :
         /\ formId' = phase
         /\ form' = BlankForm(phase)
    /\ checked' = {}
    /\ screen' = "form-screen"
    /\ requests' = <<>>
    /\ call' = [op |-> "selectPhase", failed |-> FALSE, n |-> call.n + 1, before |-> Local,
                form |-> ""]
    /\ UNCHANGED <<project, feature, derived, formBefore, applied, edits, pc, hints,
                   projectCache, featureCache, activeProjectId, activeFeatureId, toast, store,
                   transcribeVars, workflowVars, sessionToken, currentUser, pendingSuggestions,
                   pendingUpdatePayload, inflight, derivedFor, flights>>

NextScope ==
    \/ handleProjectSelectChange \/ setActiveProject \/ handleFeatureSelectChange
    \/ featuresLoaded \/ selectPhase \/ generatePrompt \/ goToForm \/ applySuggestions

SpecScope == InitStore /\ [][NextScope]_vars

\* the `general` object of a record the mapper takes
generalOf(rec) == IF rec.present THEN get(rec.details, "general") ELSE EmptyObj

(* C24: the PUT requests of applySuggestions go to the project, and to the   *)
(* feature, that were active when runGeneratePrompt derived the pending      *)
(* payload, and the cached project then holds the `general` values the       *)
(* payload was derived from.                                                 *)
C24_AppliedWhereDerived ==
    (call.op = "applySuggestions" /\ requests # <<>>) =>
        /\ requests[1].url = <<"projects", derivedFor.projectId>>
        /\ \A i \in 2..Len(requests) :
              requests[i].url = <<"projects", derivedFor.projectId, "features",
                                  derivedFor.featureId>>
        /\ generalOf(ToRecord(call.before.projectCache, derivedFor.projectId))
              = generalOf(derivedFor.project)

----------------------------------------------------------------------------
(* C25: activeFeatureId is empty or the id of a feature cached for the       *)
(* active project, however the changes of the selection and the responses    *)
(* to the requests of loadFeaturesForProject interleave.                     *)
C25_FeatureOfActiveProject ==
    activeFeatureId = "" \/ activeFeatureId \in Ids(get(featureCache, activeProjectId))

----------------------------------------------------------------------------
(* Calls of transcribeVideo that overlap.  A call gives up control at        *)
(* `await fetch(getApiEndpoint("health"))` and at `await                     *)
(* transcribeAudio(videoFile)`; flights holds, for every call made, where    *)
(* it stands: "health" while the health check is awaited, "fetch" from the   *)
(* POST of transcribeAudio until it settles, "returned" when the call has    *)
(* returned without a POST, "ended" after its finally block.                 *)

transcribeVideoCalled ==
    /\ Len(flights) < MaxRuns
    /\ \E videoFile \in VideoFiles :
          IF videoFile = "none"
          THEN toast' = "error" /\ flights' = Append(flights, "returned")
          ELSE IF transcriptionInProgress
          THEN toast' = "info" /\ flights' = Append(flights, "returned")
          ELSE IF videoFile # "video"
          THEN toast' = "error" /\ flights' = Append(flights, "returned")
          ELSE toast' = toast /\ flights' = Append(flights, "health")
    /\ UNCHANGED <<transcriptionInProgress, transcriptionStatus, ended>>
    /\ UNCHANGED <<mapperVars, projectCache, featureCache, activeProjectId, activeFeatureId,
                   store, call, tstep, elapsed, response, transcriptionText, runs, workflowVars,
                   sessionToken, currentUser, pendingSuggestions, pendingUpdatePayload,
                   requests, screen, checked, inflight, derivedFor>>

\* the health check of a call returns: the call goes on to set the flag and
\* to send the POST of transcribeAudio
healthCheckReturns ==
    /\ \E i \in 1..Len(flights), health \in HealthChecks, elements \in BOOLEAN :
          /\ flights[i] = "health"
          /\ IF health # "ok"
             THEN /\ toast' = "error"
                  /\ flights' = [flights EXCEPT ![i] = "returned"]
                  /\ UNCHANGED <<transcriptionInProgress, transcriptionStatus>>
             ELSE IF ~elements
             THEN /\ flights' = [flights EXCEPT ![i] = "returned"]
                  /\ UNCHANGED <<toast, transcriptionInProgress, transcriptionStatus>>
             ELSE /\ transcriptionInProgress' = TRUE
                  /\ transcriptionStatus' = "progress"
                  /\ flights' = [flights EXCEPT ![i] = "fetch"]
                  /\ toast' = toast
    /\ ended' = ended
    /\ UNCHANGED <<mapperVars, projectCache, featureCache, activeProjectId, activeFeatureId,
                   store, call, tstep, elapsed, response, transcriptionText, runs, workflowVars,
                   sessionToken, currentUser, pendingSuggestions, pendingUpdatePayload,
                   requests, screen, checked, inflight, derivedFor>>

\* transcribeAudio settles for a call: the text, a refusal, a network error
\* or the abort of the timer; then the finally block
transcribeAudioSettles ==
    /\ \E i \in 1..Len(flights), how \in {"done", "refused", "network", "aborted"} :
          /\ flights[i] = "fetch"
          /\ flights' = [flights EXCEPT ![i] = "ended"]
          /\ ended' = how
          /\ toast' = IF how = "done" THEN "success" ELSE "error"
          /\ transcriptionStatus' = IF how = "done" THEN "success" ELSE "failed"
    /\ transcriptionInProgress' = FALSE
    /\ UNCHANGED <<mapperVars, projectCache, featureCache, activeProjectId, activeFeatureId,
                   store, call, tstep, elapsed, response, transcriptionText, runs, workflowVars,
                   sessionToken, currentUser, pendingSuggestions, pendingUpdatePayload,
                   requests, screen, checked, inflight, derivedFor>>

NextFlights == transcribeVideoCalled \/ healthCheckReturns \/ transcribeAudioSettles

SpecFlights == InitTranscribe /\ [][NextFlights]_vars

\* the calls whose POST has been sent and has not settled
Posting == {i \in 1..Len(flights) : flights[i] = "fetch"}

(* C26: at no time have two calls of transcribeVideo a POST to the           *)
(* transcription endpoint that has not settled, and when the POST of a call  *)
(* has settled, in the text, in a failure or in the timeout,                 *)
(* transcriptionInProgress is false.                                         *)
C26_OneTranscriptionInFlight ==
    [][(/\ Cardinality({i \in 1..Len(flights') : flights'[i] = "fetch"}) <= 1
        /\ (\E i \in Posting : flights'[i] = "ended") => ~transcriptionInProgress')]_vars

----------------------------------------------------------------------------
\* the index of the wizard and the number of its phases
Index(w) == w.currentPhase
Total(w) == w.totalPhases

(* C27: startInteractiveWorkflow leaves currentPhase at 0; proceedToNextPhase *)
(* adds exactly one to it, with or without a pasted response, and records a  *)
(* pasted response under the index it found; the form of a phase is rendered *)
(* only while 0 <= currentPhase < totalPhases; the completion screen is      *)
(* shown when, and only when, currentPhase has reached totalPhases; and      *)
(* currentPhase never exceeds totalPhases.                                   *)
C27_LinearWizard ==
    [][(/\ startInteractiveWorkflow => Index(interactiveWorkflow') = 0
        /\ proceedToNextPhase =>
              /\ Index(interactiveWorkflow') = Index(interactiveWorkflow) + 1
              /\ \A k \in DOMAIN interactiveWorkflow'.phaseResults :
                    \/ k = ToString(Index(interactiveWorkflow))
                    \/ /\ k \in DOMAIN interactiveWorkflow.phaseResults
                       /\ interactiveWorkflow'.phaseResults[k]
                             = interactiveWorkflow.phaseResults[k]
        /\ screen' = "workflow-form" =>
              (0 <= Index(interactiveWorkflow')
                 /\ Index(interactiveWorkflow') < Total(interactiveWorkflow'))
        /\ (screen' = "workflow-complete")
              = (Index(interactiveWorkflow') = Total(interactiveWorkflow'))
        /\ Index(interactiveWorkflow') <= Total(interactiveWorkflow'))]_vars

----------------------------------------------------------------------------
(* C28: when logout has run, nothing of the projects of the ended session is *)
(* left in memory: no active project and no active feature, no cached        *)
(* project and no cached feature, no pending suggestion and no pending       *)
(* payload.                                                                  *)
C28_LogoutClearsProjectState ==
    call.op = "logout" =>
        /\ activeProjectId = ""
        /\ activeFeatureId = ""
        /\ projectCache = <<>>
        /\ \A pid \in DOMAIN featureCache : featureCache[pid] = <<>>
        /\ pendingSuggestions = <<>>
        /\ pendingUpdatePayload = Null

----------------------------------------------------------------------------
\* checkAuthStatus has just run with a token to check: on the load of the
\* page, or at the end of handleUserSubmit
Checked ==
    /\ Ran("checkAuthStatus") \/ Ran("handleUserSubmit")
    /\ sessionToken # ""
    /\ \E i \in 1..Len(requests') : requests'[i].url = <<"me">>

(* C30: currentUser is set only while sessionToken is set; a login and a     *)
(* registration that succeed set both, logout clears both; a checkAuthStatus *)
(* that finds the session invalid clears the token, leaves no user and shows *)
(* the auth screen; one that cannot reach the server shows the auth screen   *)
(* and keeps the token.                                                      *)
C30_AuthStateConsistent ==
    [][(/\ currentUser' # "" => sessionToken' # ""
        /\ ((Ran("handleLogin") \/ Ran("handleRegister")) /\ screen' # "auth-screen") =>
              (currentUser' # "" /\ sessionToken' # "")
        /\ Ran("logout") => (currentUser' = "" /\ sessionToken' = "")
        /\ (Checked /\ sessionToken' = "") => (currentUser' = "" /\ screen' = "auth-screen")
        /\ (Checked /\ sessionToken' # "") =>
              /\ sessionToken' = sessionToken
              /\ screen' = "auth-screen" \/ currentUser' # "")]_vars

----------------------------------------------------------------------------
\* the parts of the details of a project that the inputs of the project
\* manager do not edit: the keys of `general` it has no input for, and the
\* keys of the details other than `general`
Unedited(details) ==
    [general |-> [k \in DOMAIN get(details, "general") \ ProjectModalKeys |->
                     details.general[k]],
     rest |-> [k \in DOMAIN details \ {"general"} |-> details[k]]]

\* what Unedited(details) holds is held by `sent` too
Preserves(sent, details) ==
    /\ \A k \in DOMAIN Unedited(details).general :
          /\ k \in DOMAIN get(sent, "general")
          /\ sent.general[k] = details.general[k]
    /\ \A k \in DOMAIN Unedited(details).rest :
          k \in DOMAIN sent /\ sent[k] = details[k]

(* C29: the details saveProject sends for an existing project hold every     *)
(* part of the cached details of that project that the project manager has   *)
(* no input for: general.goals, general.issues and the phaseData tree.       *)
C29_SaveProjectPreserves ==
    (/\ call.op = "saveProject"
     /\ requests # <<>>
     /\ call.before.activeProjectId \in Ids(call.before.projectCache)) =>
        Preserves(requests[1].body.details,
                  Find(call.before.projectCache, call.before.activeProjectId).details)

====
